---- MODULE Spec2Model ----
(***************************************************************************)
(* State-machine model of the raster engine of Start-Hack-2025-UN:         *)
(*   - backend/processing.py: TIF_CACHE, load_all_tifs,                    *)
(*     load_and_preprocess_tif                                             *)
(*   - backend/graphs/GeoChatAgent/utils/nodes.py: create_gif_timeline     *)
(*   - backend/graphs/CreateGIF/utils/tools.py: create_time_series_gif,    *)
(*     convert_tif_to_mbtiles_in_memory, create_time_series_mbtiles        *)
(*   - backend/graphs/GeoFiles/utils/tools.py: save_tif_file,              *)
(*     convert_tif_to_mbtiles, convert_tif_to_geojson,                     *)
(*     process_time_series_files                                           *)
(*   - backend/graphs/GeoChatAgent/utils/tools.py: DataAnalysisTool        *)
(*   - backend/graphs/GeoChatAgent/agent.py: stream_geo_chat, workflow     *)
(*   - builderz/backend/graphs/CreateGIF and GeoFiles: the two workflows   *)
(*   - backend/main.py: get_timeline_gif                                   *)
(* Every component has its own specification over the shared variables:   *)
(*   Spec        load_all_tifs over every data directory of the model      *)
(*   SpecCompose load_and_preprocess_tif calls once the cache is loaded    *)
(*   SpecShared  load_all_tifs, then two concurrent callers                *)
(*   SpecRender  the two timeline renderers                                *)
(*   SpecConv    convert_tif_to_mbtiles_in_memory, step by step            *)
(*   SpecGeo     process_time_series_files of one request and the batch    *)
(*               create_time_series_mbtiles                                *)
(*   SpecGeoShared  two concurrent requests of process_time_series_files   *)
(*   SpecStats   the functions of DataAnalysisTool                         *)
(*   SpecRegions, SpecCorrelations, SpecShifts  compare_regions,           *)
(*               analyze_correlations and the center-of-mass shifts        *)
(*   SpecChat    two concurrent stream_geo_chat generators                 *)
(*   SpecFlow    the instruction loop (SpecFlowFair: with fair scheduling) *)
(*   SpecWorkflows  the CreateGIF and GeoFiles workflows, node by node     *)
(*   SpecHttp    GET /timeline-gif                                         *)
(***************************************************************************)
EXTENDS Integers, Sequences, FiniteSets, TLC

VARIABLES
    disk,        \* raster files of ../data: (dataset, stem) -> content
    TIF_CACHE,   \* processing.TIF_CACHE: dataset -> (year -> array)
    loadPc,      \* load_all_tifs: index of the running loop, LoadDone or LoadRaised
    files,       \* load_all_tifs: files of the running loop not yet visited
    loadLog,     \* load_all_tifs: files whose decode error was printed
    proc,        \* one record per caller of load_and_preprocess_tif
    tiffs,       \* per-year TIFF files of one country: year -> raster
    render,      \* the last call of a timeline renderer and what it produced
    tmpfs,       \* temporary files on disk: path -> content
    tmpCount,    \* temporary files created so far (names are never reused)
    conv,        \* one record per caller of convert_tif_to_mbtiles_in_memory
    geofs,       \* the output directory "geofiles": path -> file
    clock,       \* time.time() in whole seconds
    geo,         \* one record per caller of process_time_series_files
    batch,       \* the last call of create_time_series_mbtiles
    geojsons,    \* GeoJSON files of one dataset and country: year -> content
    stat,        \* the last call of a DataAnalysisTool method and its result
    sent_instructions, \* stream_geo_chat.sent_instructions: hashes already sent
    stream,      \* one record per running stream_geo_chat generator
    flow,        \* one run of the GeoChatAgent workflow through its instruction loop
    wf,          \* one run of the CreateGIF or the GeoFiles workflow
    gifs,        \* GIF files of the working directory: the names that exist
    http         \* the last GET /timeline-gif request and its response

cacheVars == <<disk, TIF_CACHE, loadPc, files, loadLog, proc>>

renderVars == <<tiffs, render>>

convVars == <<tmpfs, tmpCount, conv>>

geoVars == <<geofs, clock, geo, batch>>

statVars == <<geojsons, stat>>

chatVars == <<sent_instructions, stream>>

flowVars == <<flow>>

wfVars == <<wf>>

httpVars == <<gifs, http>>

appVars == <<chatVars, flowVars, wfVars, httpVars>>

vars == <<cacheVars, renderVars, convVars, geoVars, statVars, appVars>>

\* The variables a component leaves alone.
exceptCache == <<renderVars, convVars, geoVars, statVars, appVars>>

exceptRender == <<cacheVars, convVars, geoVars, statVars, appVars>>

exceptConv == <<cacheVars, renderVars, geoVars, statVars, appVars>>

exceptGeo == <<cacheVars, renderVars, convVars, statVars, appVars>>

exceptStat == <<cacheVars, renderVars, convVars, geoVars, appVars>>

exceptChat == <<cacheVars, renderVars, convVars, geoVars, statVars, flowVars, wfVars, httpVars>>

exceptFlow == <<cacheVars, renderVars, convVars, geoVars, statVars, chatVars, wfVars, httpVars>>

exceptWf == <<cacheVars, renderVars, convVars, geoVars, statVars, chatVars, flowVars, httpVars>>

exceptHttp == <<cacheVars, renderVars, convVars, geoVars, statVars, chatVars, flowVars, wfVars>>

----------------------------------------------------------------------------
(* Generic helpers *)

Range(s) == {s[i] : i \in 1..Len(s)}

SetMax(S) == CHOOSE x \in S : \A y \in S : y <= x

SetMin(S) == CHOOSE x \in S : \A y \in S : x <= y

SeqsUpTo(S, n) == UNION {[1..k -> S] : k \in 0..n}

Max2(a, b) == IF a >= b THEN a ELSE b

\* The directories with at most n files drawn from `pool`.
DisksOf(pool, contents, n) ==
    UNION {[F -> contents] : F \in {G \in SUBSET pool : Cardinality(G) <= n}}

----------------------------------------------------------------------------
(* backend/processing.py *)

\* The four keys of TIF_CACHE, in the order load_all_tifs runs its four loops.
LoadOrder ==
    << "Climate_Precipitation_Data", "Gridded_Population_Density_Data",
       "MODIS_Gross_Primary_Production_GPP", "Modis_Land_Cover_Data" >>

Datasets == Range(LoadOrder)

LoadDone == Len(LoadOrder) + 1

\* The position of load_all_tifs had an exception left it.
LoadRaised == Len(LoadOrder) + 2

\* Bounds of the modelled data directory and of the requests.
MaxFiles == 2

MaxLen == 2

\* A file name that the glob of its folder matches is modelled by its stem: the
\* digits just before the fixed suffix ("2010" of "2010R.tif").  The regex
\* (\d{4})<suffix>$ needs four digits there.
Stems == { <<2, 0, 1, 0>>, <<2, 0, 1, 1>>, <<2, 0, 1>> }

NoMatch == [matched |-> FALSE, year |-> 0]

\* re.search(r"(\d{4})...") and int(m.group(1)): the last four digits of the stem.
MatchYear(stem) ==
    IF Len(stem) < 4 THEN NoMatch
    ELSE LET n == Len(stem)
         IN [matched |-> TRUE,
             year |-> 1000 * stem[n - 3] + 100 * stem[n - 2] + 10 * stem[n - 1] + stem[n]]

Years == {MatchYear(s).year : s \in {t \in Stems : MatchYear(t).matched}}

\* Shapes (height, width) a decoded file can have.
Shapes == { <<1, 1>>, <<1, 2>>, <<2, 1>>, <<2, 2>> }

FilePool == Datasets \X Stems

\* What Image.open / np.array do with a file: raise, or give a 2-D array.
Corrupt == [ok |-> FALSE, h |-> 0, w |-> 0]

Contents == {Corrupt} \cup {[ok |-> TRUE, h |-> s[1], w |-> s[2]] : s \in Shapes}

\* glob.glob(os.path.join(folder, pattern)) of one dataset's folder.
Glob(ds) == {f \in DOMAIN disk : f[1] = ds}

\* Image.open(file), convert("L"), np.array(img): a single-channel 2-D array.
\* src names the file the cells come from; resampled is FALSE for a decoded file.
Decode(f) ==
    [h |-> disk[f].h, w |-> disk[f].w, src |-> f, resampled |-> FALSE]

EmptyCache == [ds \in Datasets |-> << >>]

\* TIF_CACHE[ds][year] = arr
Store(cache, ds, year, arr) ==
    [cache EXCEPT ![ds] =
        [y \in (DOMAIN cache[ds]) \cup {year} |-> IF y = year THEN arr ELSE cache[ds][y]]]

\* The loop position once a file has been handled.
NextFiles(f) == files \ {f}

\* except Exception as e: print(...): the loop goes on with the next file.
AfterDecodeErrorMutant(pc) == LoadRaised

AfterDecodeError(pc) == pc

\* A decode failure leaves the cache as it is (the assignment is never reached).
CacheOnError(cache, ds) == cache

\* for file in <glob>: one iteration of the running loop.
LoadFile(f) ==
    /\ loadPc \in 1..Len(LoadOrder)
    /\ f \in files
    /\ LET ds == LoadOrder[loadPc]
           m == MatchYear(f[2])
       IN  IF ~m.matched
           THEN /\ UNCHANGED <<TIF_CACHE, loadLog, loadPc>>
                /\ files' = NextFiles(f)
           ELSE IF ~disk[f].ok
           THEN /\ TIF_CACHE' = CacheOnError(TIF_CACHE, ds)
                /\ loadLog' = loadLog \cup {f}
                /\ loadPc' = AfterDecodeError(loadPc)
                /\ files' = IF loadPc' = loadPc THEN NextFiles(f) ELSE {}
           ELSE /\ TIF_CACHE' = Store(TIF_CACHE, ds, m.year, Decode(f))
                /\ UNCHANGED <<loadLog, loadPc>>
                /\ files' = NextFiles(f)
    /\ UNCHANGED <<disk, proc, exceptCache>>

\* The running loop is exhausted: the next folder is globbed, or the routine ends.
NextFolder ==
    /\ loadPc \in 1..Len(LoadOrder)
    /\ files = {}
    /\ loadPc' = loadPc + 1
    /\ files' = IF loadPc' = LoadDone THEN {} ELSE Glob(LoadOrder[loadPc'])
    /\ UNCHANGED <<disk, TIF_CACHE, loadLog, proc, exceptCache>>

----------------------------------------------------------------------------
(* load_and_preprocess_tif *)

Procs == {1, 2}

Regions == {"assaba", "Assaba", "mali"}

\* str.lower()
Lower(r) == IF r = "Assaba" THEN "assaba" ELSE r

\* Dataset names a request can carry: the four keys and one unknown name.
RequestNames == Datasets \cup {"Unknown_Dataset"}

NoResult == [bands |-> << >>, count |-> 0, height |-> 0, width |-> 0]

Idle ==
    [pc |-> "idle", region |-> "", year |-> 0, datasets |-> << >>,
     arrays |-> << >>, result |-> NoResult, error |-> ""]

\* Lines 115-121: the loop over the requested datasets.  It raises at the first
\* dataset that is unknown or has no layer for the year; otherwise the layer is
\* appended.
RECURSIVE GatherMutant(_, _, _, _, _)
GatherMutant(cache, year, datasets, i, acc) ==
    IF i > Len(datasets) THEN [error |-> "", arrays |-> acc]
    ELSE IF datasets[i] \notin DOMAIN cache
    THEN [error |-> "Unsupported dataset", arrays |-> << >>]
    ELSE IF year \notin DOMAIN cache[datasets[i]]
    THEN GatherMutant(cache, year, datasets, i + 1, acc)
    ELSE GatherMutant(cache, year, datasets, i + 1, Append(acc, cache[datasets[i]][year]))

RECURSIVE Gather(_, _, _, _, _)
Gather(cache, year, datasets, i, acc) ==
    IF i > Len(datasets) THEN [error |-> "", arrays |-> acc]
    ELSE IF datasets[i] \notin DOMAIN cache
    THEN [error |-> "Unsupported dataset", arrays |-> << >>]
    ELSE IF year \notin DOMAIN cache[datasets[i]]
    THEN [error |-> "Data for year not found", arrays |-> << >>]
    ELSE Gather(cache, year, datasets, i + 1, Append(acc, cache[datasets[i]][year]))

\* Lines 112-124: region check, the gathering loop, the empty-list check.
Collect(p, region, year, datasets) ==
    /\ loadPc = LoadDone
    /\ proc[p].pc = "idle"
    /\ LET g == Gather(TIF_CACHE, year, datasets, 1, << >>)
           err == IF Lower(region) # "assaba"
                  THEN "Currently only the Assaba region is supported."
                  ELSE IF g.error # "" THEN g.error
                  ELSE IF g.arrays = << >> THEN "No datasets loaded."
                  ELSE ""
       IN  proc' = [proc EXCEPT ![p] =
                [pc |-> IF err = "" THEN "collected" ELSE "raised",
                 region |-> region, year |-> year, datasets |-> datasets,
                 arrays |-> IF err = "" THEN g.arrays ELSE << >>,
                 result |-> NoResult, error |-> err]]
    /\ UNCHANGED <<disk, TIF_CACHE, loadPc, files, loadLog, exceptCache>>

\* max(arr.shape[0] for arr in arrays), max(arr.shape[1] for arr in arrays)
MaxHeight(arrays) == SetMax({arrays[i].h : i \in 1..Len(arrays)})

MaxWidthMutant(arrays) == SetMin({arrays[i].w : i \in 1..Len(arrays)})

MaxWidth(arrays) == SetMax({arrays[i].w : i \in 1..Len(arrays)})

\* Lines 133-138: Image.fromarray(arr).resize((max_width, max_height), BILINEAR)
\* gives a new array of shape (max_height, max_width); an array that already has
\* that shape is passed on as it is.
Upscale(arr, mh, mw) ==
    IF arr.h # mh \/ arr.w # mw
    THEN [h |-> mh, w |-> mw, src |-> arr.src, resampled |-> TRUE]
    ELSE arr

\* Lines 131-146: the upscaled arrays in the order of `arrays`, stacked along a
\* new last axis; np.stack needs equal shapes.
StackedMutant(arrays, mh, mw) ==
    [i \in 1..Len(arrays) |-> Upscale(arrays[Len(arrays) + 1 - i], mh, mw)]

Stacked(arrays, mh, mw) ==
    [i \in 1..Len(arrays) |-> Upscale(arrays[i], mh, mw)]

SameShape(bands) ==
    \A i, j \in 1..Len(bands) : bands[i].h = bands[j].h /\ bands[i].w = bands[j].w

\* What a compose call does to the cache: it only reads TIF_CACHE[ds][year]; the
\* upscaled array is bound to the local name `arr` alone.
CacheAfterStackMutant(cache, datasets, year, bands) ==
    [ds \in DOMAIN cache |->
        IF \E i \in 1..Len(datasets) : datasets[i] = ds
        THEN LET i == CHOOSE k \in 1..Len(datasets) : datasets[k] = ds
             IN [y \in DOMAIN cache[ds] |-> IF y = year THEN bands[i] ELSE cache[ds][y]]
        ELSE cache[ds]]

CacheAfterStack(cache, datasets, year, bands) == cache

\* Lines 126-163: maximum shape, upscaling, stacking, writing the bands into the
\* in-memory GeoTIFF (dataset.write needs every band to be height x width).
Stack(p) ==
    /\ proc[p].pc = "collected"
    /\ LET arrays == proc[p].arrays
           mh == MaxHeight(arrays)
           mw == MaxWidth(arrays)
           bands == Stacked(arrays, mh, mw)
           ok == SameShape(bands) /\ \A i \in 1..Len(bands) : bands[i].h = mh /\ bands[i].w = mw
       IN  /\ proc' = [proc EXCEPT ![p] =
                IF ok
                THEN [@ EXCEPT !.pc = "returned",
                               !.result = [bands |-> bands, count |-> Len(bands),
                                           height |-> mh, width |-> mw]]
                ELSE [@ EXCEPT !.pc = "raised", !.error = "shape mismatch"]]
           /\ TIF_CACHE' = CacheAfterStack(TIF_CACHE, proc[p].datasets, proc[p].year, bands)
    /\ UNCHANGED <<disk, loadPc, files, loadLog, exceptCache>>

\* The caller takes the buffer (or the exception) and the call is over:
\* fetch_tif streams it, load_geospatial_data reads it.
Consume(p) ==
    /\ proc[p].pc \in {"returned", "raised"}
    /\ proc' = [proc EXCEPT ![p] = Idle]
    /\ UNCHANGED <<disk, TIF_CACHE, loadPc, files, loadLog, exceptCache>>

Disks == DisksOf(FilePool, Contents, MaxFiles)

\* What load_all_tifs leaves in the cache for a directory in which no two files
\* of a folder carry the same year: the decodable files, by dataset and year.
Loaded(d) ==
    [ds \in Datasets |->
        LET good == {f \in DOMAIN d : f[1] = ds /\ MatchYear(f[2]).matched /\ d[f].ok}
        IN [y \in {MatchYear(f[2]).year : f \in good} |->
               LET f == CHOOSE g \in good : MatchYear(g[2]).year = y
               IN [h |-> d[f].h, w |-> d[f].w, src |-> f, resampled |-> FALSE]]]

----------------------------------------------------------------------------
(* Timeline renderers: create_gif_timeline (GeoChatAgent/utils/nodes.py) and
   create_time_series_gif (CreateGIF/utils/tools.py) *)

\* Bounds: files in the country's folder, entries of a data series.
MaxTiffs == 2

MaxSeries == 3

\* start_year = max(2010, start_year); end_year = min(2020, end_year)
FirstYear == 2010

LastYear == 2020

\* min_val = 0 / max_val = 100 when no cell is valid; LogNorm floor; ceiling.
DefaultMin == 0

DefaultMax == 100

LogFloor == 1

MinCeiling == 100

\* Years a TIFF file may exist for: two outside the supported window, three in it.
EnvYears == {FirstYear - 1, FirstYear, FirstYear + 1, FirstYear + 2, LastYear + 1}

\* A raster file: unreadable (rasterio.open raises), or band 1 as the set of its
\* cell values with the declared nodata value (none: the empty set).
Unreadable == [readable |-> FALSE, cells |-> {}, nodata |-> {}]

Rasters ==
    { Unreadable,
      [readable |-> TRUE, cells |-> {0}, nodata |-> {}],
      [readable |-> TRUE, cells |-> {3}, nodata |-> {}],
      [readable |-> TRUE, cells |-> {3, 250}, nodata |-> {}],
      [readable |-> TRUE, cells |-> {3, 250}, nodata |-> {250}],
      [readable |-> TRUE, cells |-> {250}, nodata |-> {250}],
      [readable |-> TRUE, cells |-> {40, 120}, nodata |-> {}] }

\* The record of a renderer call: the parameters, and what the call produced.
NoCall ==
    [fn |-> "none", dataset |-> "", country |-> "", start_year |-> 0, end_year |-> 0,
     series |-> << >>, outcome |-> "none", frames |-> << >>, written |-> FALSE,
     frontend_actions |-> << >>, message |-> "", raised |-> FALSE]

Kinds == {"PopDensity", "Precipitation"}

Countries == {"Mali", "Atlantis"}

\* country_codes.get(country): the countries PopDensity files exist for.
HasCode(country) == country = "Mali"

\* os.path.exists(tiff_path): the modelled folder is Mali's.
Exists(dataset, country, year) ==
    /\ dataset = "PopDensity" => HasCode(country)
    /\ country = "Mali"
    /\ year \in DOMAIN tiffs

\* valid_data = data[~np.isnan(data) & (data > 0)] of the nodata-masked band.
ValidCells(r) == {c \in r.cells : c \notin r.nodata /\ c > 0}

\* sorted(..., key=year): a stable insertion sort.
RECURSIVE InsertByYear(_, _)
InsertByYear(x, s) ==
    IF s = << >> THEN <<x>>
    ELSE IF s[Len(s)].year <= x.year THEN Append(s, x)
    ELSE Append(InsertByYear(x, SubSeq(s, 1, Len(s) - 1)), s[Len(s)])

SortedByYearMutant(s) == s

RECURSIVE SortedByYear(_)
SortedByYear(s) ==
    IF s = << >> THEN << >>
    ELSE InsertByYear(s[Len(s)], SortedByYear(SubSeq(s, 1, Len(s) - 1)))

\* list(range(start_year, end_year + 1)) as an ascending sequence.
RECURSIVE YearRange(_, _)
YearRange(a, b) == IF a > b THEN << >> ELSE <<a>> \o YearRange(a + 1, b)

\* if frames: / if not pil_frames: the last guard before frames[0].save(...).
FramesExistMutant(frames) == TRUE

FramesExist(frames) == frames # << >>

\* Lines 971-974: the global minimum and maximum of the valid cells, or the
\* defaults when no cell of any frame is valid.
SensibleMin(valid) == IF valid = {} THEN DefaultMin ELSE SetMin(valid)

SensibleMaxMutant(valid) == IF valid = {} THEN DefaultMax ELSE SetMin(valid)

SensibleMax(valid) == IF valid = {} THEN DefaultMax ELSE SetMax(valid)

\* Lines 976-983: LogNorm(max(1, min_val), max(100, max_val)) for PopDensity,
\* Normalize(min_val, max(100, max_val)) otherwise.
NormForMutant(dataset, min_val, max_val) ==
    [scale |-> IF dataset = "PopDensity" THEN "log" ELSE "linear",
     vmin |-> min_val, vmax |-> Max2(MinCeiling, max_val)]

NormFor(dataset, min_val, max_val) ==
    IF dataset = "PopDensity"
    THEN [scale |-> "log", vmin |-> Max2(LogFloor, min_val), vmax |-> Max2(MinCeiling, max_val)]
    ELSE [scale |-> "linear", vmin |-> min_val, vmax |-> Max2(MinCeiling, max_val)]

\* plt.imshow(data, cmap=cmap, norm=norm): one frame, coloured with `norm`.
Frame(year, norm) ==
    [year |-> year, scale |-> norm.scale, vmin |-> norm.vmin, vmax |-> norm.vmax]

\* plt.imshow(arr, cmap='viridis'): no norm is given, so matplotlib scales the
\* frame linearly between the smallest and the largest cell of that array.
AutoFrame(year, r) ==
    [year |-> year, scale |-> "linear", vmin |-> SetMin(r.cells), vmax |-> SetMax(r.cells)]

\* The two MapBoxInstructions appended to state["frontend_actions"].
Instructions(years) ==
    << [action |-> "CHAT_MESSAGE_WITH_MEDIA", years |-> years],
       [action |-> "DISPLAY_TIMELINE", years |-> years] >>

\* create_gif_timeline from the extracted parameters to its return.
TimelineResult(dataset, country, sy, ey) ==
    LET start_year == Max2(FirstYear, sy)
        end_year == IF ey <= LastYear THEN ey ELSE LastYear
        years == YearRange(start_year, end_year)
        InFolder(y) == Exists(dataset, country, y)
        tiff_paths == SelectSeq(years, InFolder)
        Readable(y) == tiffs[y].readable
        read == SelectSeq(tiff_paths, Readable)
        data_series == [i \in 1..Len(read) |-> [year |-> read[i], data |-> tiffs[read[i]]]]
        valid == UNION {ValidCells(data_series[i].data) : i \in 1..Len(data_series)}
        norm == NormFor(dataset, SensibleMin(valid), SensibleMax(valid))
        ordered == SortedByYear(data_series)
        pil_frames == [i \in 1..Len(ordered) |-> Frame(ordered[i].year, norm)]
        call == [NoCall EXCEPT !.fn = "create_gif_timeline", !.dataset = dataset,
                               !.country = country, !.start_year = sy, !.end_year = ey]
    IN  IF tiff_paths = << >>
        THEN [call EXCEPT !.outcome = "error", !.message = "couldn't find any TIFF files"]
        ELSE IF data_series = << >>
        THEN [call EXCEPT !.outcome = "error", !.message = "couldn't process any TIFF files"]
        ELSE IF ~FramesExist(pil_frames)
        THEN [call EXCEPT !.outcome = "error", !.message = "couldn't create animation frames"]
        ELSE IF pil_frames = << >>
        THEN [call EXCEPT !.outcome = "raised", !.raised = TRUE]
        ELSE [call EXCEPT !.outcome = "ok", !.frames = pil_frames, !.written = TRUE,
                          !.frontend_actions =
                              Instructions([i \in 1..Len(ordered) |-> ordered[i].year]),
                          !.message = "Creating an animated timeline"]

CreateGifTimeline(dataset, country, sy, ey) ==
    /\ render.fn = "none"
    /\ render' = TimelineResult(dataset, country, sy, ey)
    /\ UNCHANGED <<tiffs, exceptRender>>

\* One entry of a data series as load_geospatial_data builds it: the year, and
\* the raster under "data" (the empty set: the entry carries an error instead).
Entry(year) ==
    [year |-> year,
     data |-> IF year \in DOMAIN tiffs /\ tiffs[year].readable THEN {tiffs[year]} ELSE {}]

\* create_time_series_gif(data_series).
SeriesResult(series) ==
    LET HasData(d) == d.data # {}
        ordered == SelectSeq(SortedByYear(series), HasData)
        RasterOf(d) == CHOOSE r \in d.data : TRUE
        frames == [i \in 1..Len(ordered) |-> AutoFrame(ordered[i].year, RasterOf(ordered[i]))]
        call == [NoCall EXCEPT !.fn = "create_time_series_gif", !.series = series]
    IN  IF series = << >>
        THEN [call EXCEPT !.outcome = "error",
                          !.message = "Error: No data provided for time series"]
        ELSE IF FramesExist(frames)
        THEN IF frames = << >>
             THEN [call EXCEPT !.outcome = "raised", !.raised = TRUE]
             ELSE [call EXCEPT !.outcome = "ok", !.frames = frames, !.written = TRUE,
                               !.message = "/visualizations/<filename>.gif"]
        ELSE [call EXCEPT !.outcome = "error",
                          !.message = "Error: Could not create any frames for the GIF"]

CreateTimeSeriesGif(order) ==
    /\ render.fn = "none"
    /\ render' = SeriesResult([i \in 1..Len(order) |-> Entry(order[i])])
    /\ UNCHANGED <<tiffs, exceptRender>>

\* The renderer has returned and the workflow run that called it ends; its
\* state is dropped.
EndRun ==
    /\ render.fn # "none"
    /\ render' = NoCall
    /\ UNCHANGED <<tiffs, exceptRender>>

\* The folders the model starts from: at most MaxTiffs files.
TiffFolders == DisksOf(EnvYears, Rasters, MaxTiffs)

SeriesYears == {FirstYear, FirstYear + 1, FirstYear + 2}

\* Data series: up to MaxSeries entries of distinct years, in any order.
SeriesOrders ==
    {o \in SeqsUpTo(SeriesYears, MaxSeries) : \A i, j \in 1..Len(o) : i # j => o[i] # o[j]}

----------------------------------------------------------------------------
(* convert_tif_to_mbtiles_in_memory (CreateGIF/utils/tools.py) *)

\* Bound: temporary files created over a run.
MaxTmp == 4

Workers == {1, 2}

\* What the tool may write to stderr (text=True: decoded inside subprocess.run).
Stderrs == {"", "stderr"}

\* Archives the tool may leave in the output file on exit code 0.
Archives == {"", "tiles"}

\* The pair returned: the bytes, and the error message as its parts.
NoOutput == [data |-> "", error |-> << >>]

\* conv[w].tool: what the tool did in this call (none: it was not run).
NoTool == [exit |-> "none", stderr |-> "", archive |-> ""]

ConvIdle ==
    [pc |-> "idle", tif |-> {}, mbtiles |-> {}, created |-> {},
     tool |-> NoTool, exception |-> FALSE, result |-> NoOutput]

\* tempfile.NamedTemporaryFile(delete=False): a name no file ever had.
FreshPath == tmpCount + 1

\* The file at `path` with `content`.
WithFile(fs, path, content) ==
    [q \in (DOMAIN fs) \cup {path} |-> IF q = path THEN content ELSE fs[q]]

\* if os.path.exists(path): os.remove(path), for each path of the set.
Removed(fs, paths) == [q \in (DOMAIN fs) \ paths |-> fs[q]]

\* The only path a call holds for a file.
PathOf(paths) == CHOOSE q \in paths : TRUE

\* f"Error in rio mbtiles: {proc.stderr}"
ToolError(stderr) == <<"Error in rio mbtiles: ", stderr>>

\* f"Error converting TIF to MBTiles: {str(e)}"
ExceptionError == <<"Error converting TIF to MBTiles: ", "exception">>

\* An exception reaches the handler of line 310, which swallows it.
AfterExceptionMutant(c) == [c EXCEPT !.pc = "raised", !.exception = TRUE]

\* except Exception as e: return b"", error_msg
AfterException(c) ==
    [c EXCEPT !.pc = "returned", !.exception = TRUE,
              !.result = [data |-> "", error |-> ExceptionError]]

\* The call begins.
ConvCall(w) ==
    /\ conv[w].pc = "idle"
    /\ tmpCount + 2 <= MaxTmp
    /\ conv' = [conv EXCEPT ![w] = [ConvIdle EXCEPT !.pc = "create_tif"]]
    /\ UNCHANGED <<tmpfs, tmpCount, exceptConv>>

\* Line 272: with NamedTemporaryFile(suffix='.tif', delete=False) as tmp_tif.
CreateTif(w, ok) ==
    /\ conv[w].pc = "create_tif"
    /\ IF ok
       THEN /\ tmpfs' = WithFile(tmpfs, FreshPath, "")
            /\ tmpCount' = tmpCount + 1
            /\ conv' = [conv EXCEPT ![w] =
                  [@ EXCEPT !.pc = "write_tif", !.tif = {FreshPath},
                            !.created = @ \cup {FreshPath}]]
       ELSE /\ conv' = [conv EXCEPT ![w] = AfterException(@)]
            /\ UNCHANGED <<tmpfs, tmpCount>>
    /\ UNCHANGED exceptConv

\* Lines 273-274: tmp_tif_path = tmp_tif.name; tmp_tif.write(tif_data); the file
\* is closed as the with block is left.  A failing write leaves the block by the
\* exception, past the try/finally that follows.
WriteTif(w, ok) ==
    /\ conv[w].pc = "write_tif"
    /\ IF ok
       THEN /\ tmpfs' = WithFile(tmpfs, PathOf(conv[w].tif), "tif")
            /\ conv' = [conv EXCEPT ![w] = [@ EXCEPT !.pc = "create_mbtiles"]]
       ELSE /\ conv' = [conv EXCEPT ![w] = AfterException(@)]
            /\ UNCHANGED tmpfs
    /\ UNCHANGED <<tmpCount, exceptConv>>

\* Lines 277-278: with NamedTemporaryFile(suffix='.mbtiles', delete=False).
CreateMbtiles(w, ok) ==
    /\ conv[w].pc = "create_mbtiles"
    /\ IF ok
       THEN /\ tmpfs' = WithFile(tmpfs, FreshPath, "")
            /\ tmpCount' = tmpCount + 1
            /\ conv' = [conv EXCEPT ![w] =
                  [@ EXCEPT !.pc = "run_tool", !.mbtiles = {FreshPath},
                            !.created = @ \cup {FreshPath}]]
       ELSE /\ conv' = [conv EXCEPT ![w] = AfterException(@)]
            /\ UNCHANGED <<tmpfs, tmpCount>>
    /\ UNCHANGED exceptConv

ToolOutcomes == {"zero", "nonzero", "raise"}

\* Lines 280-295: subprocess.run(['rio', 'mbtiles', ...], check=False) inside the
\* inner try: exit code 0 (the tool leaves `archive` in the output file), a
\* non-zero exit code (stderr is returned in the error), or an exception of
\* subprocess.run itself (the program is missing, the output is not text).
RunTool(w, outcome, stderr, archive) ==
    /\ conv[w].pc = "run_tool"
    /\ outcome \in ToolOutcomes
    /\ outcome = "zero" \/ archive = ""
    /\ outcome # "raise" \/ stderr = ""
    /\ LET ran == [exit |-> outcome, stderr |-> stderr, archive |-> archive]
       IN  IF outcome = "zero"
           THEN /\ tmpfs' = WithFile(tmpfs, PathOf(conv[w].mbtiles), archive)
                /\ conv' = [conv EXCEPT ![w] = [@ EXCEPT !.pc = "read", !.tool = ran]]
           ELSE IF outcome = "nonzero"
           THEN /\ conv' = [conv EXCEPT ![w] =
                      [@ EXCEPT !.pc = "finally", !.tool = ran,
                                !.result = [data |-> "", error |-> ToolError(stderr)]]]
                /\ UNCHANGED tmpfs
           ELSE /\ conv' = [conv EXCEPT ![w] =
                      [@ EXCEPT !.pc = "finally", !.tool = ran, !.exception = TRUE]]
                /\ UNCHANGED tmpfs
    /\ UNCHANGED <<tmpCount, exceptConv>>

\* Lines 298-301: with open(tmp_mbtiles_path, 'rb') as f: mbtiles_data = f.read()
ReadArchive(w, ok) ==
    /\ conv[w].pc = "read"
    /\ conv' = [conv EXCEPT ![w] =
          IF ok
          THEN [@ EXCEPT !.pc = "finally",
                         !.result = [data |-> tmpfs[PathOf(conv[w].mbtiles)], error |-> << >>]]
          ELSE [@ EXCEPT !.pc = "finally", !.exception = TRUE]]
    /\ UNCHANGED <<tmpfs, tmpCount, exceptConv>>

\* Lines 303-308: finally: both temporary files are removed if they exist; then
\* the pending return ends the call, or the pending exception goes on to the
\* handler of line 310.
Cleanup(w) ==
    /\ conv[w].pc = "finally"
    /\ tmpfs' = Removed(tmpfs, conv[w].tif \cup conv[w].mbtiles)
    /\ conv' = [conv EXCEPT ![w] =
          IF conv[w].exception THEN AfterException(@) ELSE [@ EXCEPT !.pc = "returned"]]
    /\ UNCHANGED <<tmpCount, exceptConv>>

\* The caller (create_time_series_mbtiles, line 357) takes the pair; an
\* exception would go on to the caller's caller.
ConvReturn(w) ==
    /\ conv[w].pc \in {"returned", "raised"}
    /\ conv' = [conv EXCEPT ![w] = ConvIdle]
    /\ UNCHANGED <<tmpfs, tmpCount, exceptConv>>

----------------------------------------------------------------------------
(* File generation (GeoFiles/utils/tools.py) *)

\* Bound: seconds that pass during a run.
MaxClock == 1

GeoRequests == {1, 2}

GeoRegion == "assaba"

GeoDataset == "Climate_Precipitation_Data"

GeoFormats == {"tif", "mbtiles", "geojson"}

\* stderr of an external tool, as bytes: text, or bytes that are not UTF-8.
BadBytes == "\\xff"

GeoStderrs == {"warning", BadBytes}

\* bytes.decode(): UnicodeDecodeError unless the bytes are UTF-8.
Decodable(bytes) == bytes # BadBytes

\* A string a tool function returns: the path of a file, or an error message
\* given by its parts.
PathItem(path) == [path |-> {path}, error |-> << >>]

ErrorItem(parts) == [path |-> {}, error |-> parts]

\* result = {} of process_geospatial_files (no key: the empty set).
NoYearFiles == [tif |-> {}, mbtiles |-> {}, geojson |-> {}]

\* result = {fmt: [] for fmt in formats}; result["years"] = []
NoGeoResult == [tif |-> << >>, mbtiles |-> << >>, geojson |-> << >>, years |-> << >>]

\* The record of one convert_tif_to_geojson call: the tools it invoked, whether
\* os.path.exists(temp_geojson) held after the first, and how it ended.
NoGeoJson ==
    [tools |-> << >>, tempSeen |-> FALSE, temp |-> {}, outcome |-> "none", value |-> {}]

GeoIdle ==
    [pc |-> "idle", start_year |-> 0, end_year |-> 0, formats |-> << >>,
     year |-> 0, fi |-> 0, year_files |-> NoYearFiles, result |-> NoGeoResult,
     gj |-> NoGeoJson, dropped |-> {}, shared |-> FALSE]

\* f"{region}_{dataset}_{year}_{timestamp}.tif" and the names derived from it
\* (lines 88, 119, 169-171): region and dataset are GeoRegion and GeoDataset.
GeoPath(kind, year, timestamp) == <<kind, year, timestamp>>

Sibling(kind, tif_path) == GeoPath(kind, tif_path[2], tif_path[3])

GeoFile(kind, r) == [content |-> kind, writer |-> r]

\* Request r touches `path`, which holds a file that another request, still
\* running, wrote.
OthersFile(fs, path, r) ==
    /\ path \in DOMAIN fs
    /\ fs[path].writer \in GeoRequests \ {r}
    /\ geo[fs[path].writer].pc \notin {"idle", "done"}

\* load_geospatial_data: load_and_preprocess_tif(region, year, [dataset]) raises
\* for a year without a layer, and the error is returned in the dictionary.
HasData(year) == year \in DOMAIN TIF_CACHE[GeoDataset]

\* for year in range(start_year, end_year + 1): the next iteration, or return.
NextYear(g) ==
    IF g.year + 1 > g.end_year
    THEN [g EXCEPT !.pc = "done"]
    ELSE [g EXCEPT !.pc = "load", !.year = g.year + 1]

\* An exception leaves process_geospatial_files. Lines 323-324: it is printed
\* and the loop goes on; nothing was appended for the year.
AfterYearRaised(g) == NextYear([g EXCEPT !.dropped = @ \cup {g.year}])

\* The current format of the loop of line 248, "" past the last.
Fmt(g) == IF g.fi \in 1..Len(g.formats) THEN g.formats[g.fi] ELSE ""

TifPath(g) == CHOOSE q \in g.year_files.tif : TRUE

\* process_time_series_files(region, start_year, end_year, dataset, formats).
GeoCall(r, start_year, end_year, formats) ==
    /\ geo[r].pc = "idle"
    /\ batch.fn = "none"
    /\ loadPc = LoadDone
    /\ geo' = [geo EXCEPT ![r] =
          [GeoIdle EXCEPT !.pc = IF start_year > end_year THEN "done" ELSE "load",
                          !.start_year = start_year, !.end_year = end_year,
                          !.formats = formats, !.year = start_year]]
    /\ UNCHANGED <<geofs, clock, batch, exceptGeo>>

\* Lines 241-245 and 313-314: a year without data is skipped.
GeoLoad(r) ==
    /\ geo[r].pc = "load"
    /\ geo' = [geo EXCEPT ![r] =
          IF HasData(geo[r].year)
          THEN [@ EXCEPT !.pc = "formats", !.fi = 1, !.year_files = NoYearFiles]
          ELSE NextYear(@)]
    /\ UNCHANGED <<geofs, clock, batch, exceptGeo>>

\* save_tif_file (lines 86-97), called for the format "tif" and before the first
\* conversion when no TIF was saved for the year (lines 250, 256, 268).
GeoSaveTif(r) ==
    LET g == geo[r]
        path == GeoPath("tif", g.year, clock)
    IN  /\ g.pc = "formats"
        /\ \/ Fmt(g) = "tif"
           \/ Fmt(g) \in {"mbtiles", "geojson"} /\ g.year_files.tif = {}
        /\ geofs' = WithFile(geofs, path, GeoFile("tif", r))
        /\ geo' = [geo EXCEPT ![r] =
              [@ EXCEPT !.year_files.tif = {path},
                        !.fi = IF Fmt(g) = "tif" THEN g.fi + 1 ELSE g.fi,
                        !.shared = @ \/ OthersFile(geofs, path, r)]]
        /\ UNCHANGED <<clock, batch, exceptGeo>>

GeoExits == {"zero", "nonzero"}

\* subprocess.CalledProcessError handlers (lines 141-143, 209-212):
\* err_msg = e.stderr.decode() runs inside the handler, outside the try.
CommandFailed(prefix, stderr) == ErrorItem(<<prefix, "Command failed with code ", ". ", stderr>>)

\* An error return built inside the try (lines 138-139, 203-207): a failing
\* decode is caught by `except Exception` (lines 144-145, 213-214).
NotCreated(prefix, fallback, stderr) ==
    IF Decodable(stderr)
    THEN ErrorItem(<<prefix, stderr>>)
    ELSE ErrorItem(<<fallback, "codec can't decode">>)

\* convert_tif_to_mbtiles (lines 111-145) for the format "mbtiles": the tool
\* exits with `exit`, has written `stderr`, and has or has not written the
\* output file.
GeoMbtiles(r, exit, stderr, wrote) ==
    LET g == geo[r]
        tif_path == TifPath(g)
        mbtiles_path == Sibling("mbtiles", tif_path)
        fs == IF wrote THEN WithFile(geofs, mbtiles_path, GeoFile("mbtiles", r)) ELSE geofs
        touched == \/ OthersFile(geofs, tif_path, r)
                   \/ wrote /\ OthersFile(geofs, mbtiles_path, r)
        value == IF exit = "nonzero"
                 THEN CommandFailed("Error converting TIF to MBTiles: ", stderr)
                 ELSE IF mbtiles_path \in DOMAIN fs
                 THEN PathItem(mbtiles_path)
                 ELSE NotCreated("Error: MBTiles file was not created: ",
                                 "Error converting TIF to MBTiles: ", stderr)
    IN  /\ g.pc = "formats"
        /\ Fmt(g) = "mbtiles"
        /\ g.year_files.tif # {}
        /\ geofs' = fs
        /\ geo' = [geo EXCEPT ![r] =
              IF exit = "nonzero" /\ ~Decodable(stderr)
              THEN AfterYearRaised([@ EXCEPT !.shared = @ \/ touched])
              ELSE [@ EXCEPT !.year_files.mbtiles = {value}, !.fi = g.fi + 1,
                             !.shared = @ \/ touched]]
        /\ UNCHANGED <<clock, batch, exceptGeo>>

\* convert_tif_to_geojson, first tool (lines 161-185 and 205-212):
\* gdal_polygonize.py reads the TIF and writes temp_geojson.
Polygonize(r, exit, stderr, wrote) ==
    LET g == geo[r]
        tif_path == TifPath(g)
        temp_geojson == Sibling("temp_geojson", tif_path)
        fs == IF wrote THEN WithFile(geofs, temp_geojson, GeoFile("temp_geojson", r)) ELSE geofs
        touched == \/ OthersFile(geofs, tif_path, r)
                   \/ wrote /\ OthersFile(geofs, temp_geojson, r)
        ran == [NoGeoJson EXCEPT
                   !.tools = <<[name |-> "polygonize", exit |-> exit, stderr |-> stderr]>>,
                   !.temp = {temp_geojson},
                   !.outcome = "running"]
        value == IF exit = "nonzero"
                 THEN CommandFailed("Error converting TIF to GeoJSON: ", stderr)
                 ELSE NotCreated("Error: Temporary GeoJSON file was not created: ",
                                 "Error converting TIF to GeoJSON: ", stderr)
    IN  /\ g.pc = "formats"
        /\ Fmt(g) = "geojson"
        /\ g.year_files.tif # {}
        /\ geofs' = fs
        /\ geo' = [geo EXCEPT ![r] =
              IF exit = "nonzero" /\ ~Decodable(stderr)
              THEN AfterYearRaised([@ EXCEPT !.gj = [ran EXCEPT !.outcome = "raised"],
                                             !.shared = @ \/ touched])
              ELSE IF exit = "zero" /\ temp_geojson \in DOMAIN fs
              THEN [@ EXCEPT !.pc = "simplify", !.gj = [ran EXCEPT !.tempSeen = TRUE],
                             !.shared = @ \/ touched]
              ELSE [@ EXCEPT !.year_files.geojson = {value}, !.fi = g.fi + 1,
                             !.gj = [ran EXCEPT !.outcome = "returned", !.value = {value}],
                             !.shared = @ \/ touched]]
        /\ UNCHANGED <<clock, batch, exceptGeo>>

\* Lines 196-198: if os.path.exists(temp_geojson): os.remove(temp_geojson)
AfterSimplifyMutant(fs, temp_geojson) == fs

AfterSimplify(fs, temp_geojson) == Removed(fs, {temp_geojson})

\* convert_tif_to_geojson, second tool to the return (lines 186-204 and
\* 209-212): ogr2ogr reads temp_geojson and writes geojson_path; after exit
\* code 0 the temporary file is removed. The message of line 204 holds
\* result.stderr, the stderr of the first tool.
Simplify(r, exit, stderr, wrote) ==
    LET g == geo[r]
        tif_path == TifPath(g)
        temp_geojson == Sibling("temp_geojson", tif_path)
        geojson_path == Sibling("geojson", tif_path)
        written == IF wrote THEN WithFile(geofs, geojson_path, GeoFile("geojson", r)) ELSE geofs
        fs == IF exit = "zero" THEN AfterSimplify(written, temp_geojson) ELSE written
        touched == \/ OthersFile(geofs, temp_geojson, r)
                   \/ wrote /\ OthersFile(geofs, geojson_path, r)
        ran == [g.gj EXCEPT
                   !.tools = Append(@, [name |-> "simplify", exit |-> exit, stderr |-> stderr])]
        value == IF exit = "nonzero"
                 THEN CommandFailed("Error converting TIF to GeoJSON: ", stderr)
                 ELSE IF geojson_path \in DOMAIN fs
                 THEN PathItem(geojson_path)
                 ELSE NotCreated("Error: Final GeoJSON file was not created: ",
                                 "Error converting TIF to GeoJSON: ", g.gj.tools[1].stderr)
    IN  /\ g.pc = "simplify"
        /\ geofs' = fs
        /\ geo' = [geo EXCEPT ![r] =
              IF exit = "nonzero" /\ ~Decodable(stderr)
              THEN AfterYearRaised([@ EXCEPT !.gj = [ran EXCEPT !.outcome = "raised"],
                                             !.shared = @ \/ touched])
              ELSE [@ EXCEPT !.pc = "formats", !.year_files.geojson = {value},
                             !.fi = g.fi + 1,
                             !.gj = [ran EXCEPT !.outcome = "returned", !.value = {value}],
                             !.shared = @ \/ touched]]
        /\ UNCHANGED <<clock, batch, exceptGeo>>

\* result[fmt].append(year_files[fmt]) for the format fmt, if it is requested
\* and the year produced it (lines 317-319).
Appended(list, fmt, g, items) ==
    IF (\E i \in 1..Len(g.formats) : g.formats[i] = fmt) /\ items # {}
    THEN Append(list, CHOOSE x \in items : TRUE)
    ELSE list

\* Lines 316-321: the year's files and the year are appended to the result.
GeoYearDone(r) ==
    LET g == geo[r]
        tifs == {PathItem(q) : q \in g.year_files.tif}
    IN  /\ g.pc = "formats"
        /\ g.fi > Len(g.formats)
        /\ geo' = [geo EXCEPT ![r] =
              NextYear([@ EXCEPT
                  !.result = [tif |-> Appended(g.result.tif, "tif", g, tifs),
                              mbtiles |-> Appended(g.result.mbtiles, "mbtiles", g,
                                                   g.year_files.mbtiles),
                              geojson |-> Appended(g.result.geojson, "geojson", g,
                                                   g.year_files.geojson),
                              years |-> Append(g.result.years, g.year)]])]
        /\ UNCHANGED <<geofs, clock, batch, exceptGeo>>

\* A second passes.
Tick ==
    /\ clock < MaxClock
    /\ clock' = clock + 1
    /\ UNCHANGED <<geofs, geo, batch, exceptGeo>>

----------------------------------------------------------------------------
(* create_time_series_mbtiles (CreateGIF/utils/tools.py) *)

\* Bound: entries of a data series handed to create_time_series_mbtiles.
MaxBatch == 2

BatchYears == {2010, 2011, 2012}

\* batch.pending: the entries the loop has still to visit; batch.outcomes: what
\* convert_tif_to_mbtiles_in_memory returned for the entries visited.
NoBatch ==
    [fn |-> "none", series |-> << >>, pending |-> << >>, outcomes |-> << >>,
     result |-> << >>]

\* What convert_tif_to_mbtiles_in_memory may return.
ConvOutcomes ==
    {[data |-> a, error |-> << >>] : a \in Archives}
        \cup {[data |-> "", error |-> ToolError(e)] : e \in Stderrs}
        \cup {[data |-> "", error |-> ExceptionError]}

\* base64.b64encode(mbtiles_bytes).decode('utf-8')
Base64(bytes) == <<"base64", bytes>>

\* An entry of the series, as load_geospatial_data returns it: a year without
\* data has no "data" key.
BatchEntry(year) == [year |-> year, data |-> IF HasData(year) THEN {"tif"} ELSE {}]

\* Lines 360-373: "error" is set if the message is non-empty, else "data".
ItemOf(year, out) ==
    [year |-> year,
     data |-> IF out.error # << >> THEN {} ELSE {Base64(out.data)},
     error |-> IF out.error # << >> THEN {out.error} ELSE {}]

\* Lines 342-347: the loop visits the entries by year and skips those
\* without data.
Visited(series) ==
    LET WithData(d) == d.data # {}
    IN  SelectSeq(SortedByYear(series), WithData)

\* create_time_series_mbtiles(data_series), to the head of the loop.
BatchCall(order) ==
    /\ batch.fn = "none"
    /\ loadPc = LoadDone
    /\ \A r \in GeoRequests : geo[r].pc = "idle"
    /\ LET series == [i \in 1..Len(order) |-> BatchEntry(order[i])]
       IN  batch' = [NoBatch EXCEPT !.fn = "create_time_series_mbtiles",
                                    !.series = series, !.pending = Visited(series)]
    /\ UNCHANGED <<geofs, clock, geo, exceptGeo>>

\* Lines 349-373: one iteration; convert_tif_to_mbtiles_in_memory returns `out`.
BatchConvert(out) ==
    /\ batch.fn # "none"
    /\ batch.pending # << >>
    /\ batch' = [batch EXCEPT !.pending = Tail(@),
                              !.outcomes = Append(@, out),
                              !.result = Append(@, ItemOf(batch.pending[1].year, out))]
    /\ UNCHANGED <<geofs, clock, geo, exceptGeo>>

\* The caller (create_visualization.py, line 66) takes the list.
BatchReturn ==
    /\ batch.fn # "none"
    /\ batch.pending = << >>
    /\ batch' = NoBatch
    /\ UNCHANGED <<geofs, clock, geo, exceptGeo>>

----------------------------------------------------------------------------
(* DataAnalysisTool (GeoChatAgent/utils/tools.py) *)

\* Bounds: features of a GeoJSON document, values of a list, points of a list.
MaxFeatures == 2

MaxValues == 3

MaxPoints == 2

\* Numbers are exact fractions <<numerator, denominator>>.
Zero == <<0, 1>>

Same(a, b) == a[1] * b[2] = b[1] * a[2]

Positive(a) == a[1] * a[2] > 0

\* a < b for fractions with positive denominators.
Less(a, b) == a[1] * b[2] < b[1] * a[2]

RECURSIVE Sum(_)
Sum(s) == IF s = << >> THEN 0 ELSE s[1] + Sum(Tail(s))

RECURSIVE Ascending(_)
Ascending(s) ==
    IF s = << >> THEN << >>
    ELSE LET rest == Ascending(Tail(s))
             Below(v) == v <= s[1]
             Above(v) == v > s[1]
         IN  SelectSeq(rest, Below) \o <<s[1]>> \o SelectSeq(rest, Above)

\* The DN property of a feature: absent, a string, null, or a number.
NoDN == [kind |-> "missing", n |-> 0]

DNs ==
    {NoDN, [kind |-> "string", n |-> 0], [kind |-> "null", n |-> 0]}
        \cup {[kind |-> "number", n |-> n] : n \in {-1, 0, 1, 3}}

\* The geometry of a feature: absent, or a Point.
NoGeometry == [type |-> "none", lon |-> 0, lat |-> 0]

Geometries ==
    {NoGeometry, [type |-> "Point", lon |-> 2, lat |-> 0], [type |-> "Point", lon |-> -1, lat |-> 3]}

Features == [dn : DNs, geometry : Geometries]

\* A GeoJSON document: None, a dictionary without "features", or its features.
NoGeojson == [loaded |-> FALSE, keyed |-> FALSE, features |-> << >>]

Unkeyed == [loaded |-> TRUE, keyed |-> FALSE, features |-> << >>]

Geojson(features) == [loaded |-> TRUE, keyed |-> TRUE, features |-> features]

\* Lines 71-73 and 95-97: isinstance(dn_value, (int, float)) and dn_value > 0
Observed(feature) == feature.dn.kind = "number" /\ feature.dn.n > 0

\* extract_data_values, lines 65-76.
extract_data_values(geojson) ==
    IF ~geojson.loaded \/ ~geojson.keyed
    THEN << >>
    ELSE LET kept == SelectSeq(geojson.features, Observed)
         IN  [i \in 1..Len(kept) |-> kept[i].dn.n]

\* Lines 97-101: the features that give a point.
LocatedMutant(feature) == feature.geometry.type = "Point"

Located(feature) == Observed(feature) /\ feature.geometry.type = "Point"

\* extract_data_with_coordinates, lines 89-120, for Point geometries.
extract_data_with_coordinates(geojson) ==
    IF ~geojson.loaded \/ ~geojson.keyed
    THEN << >>
    ELSE LET kept == SelectSeq(geojson.features, Located)
         IN  [i \in 1..Len(kept) |->
                 <<kept[i].geometry.lon, kept[i].geometry.lat, kept[i].dn.n>>]

\* total_weight = sum(p[2] for p in points), line 136.
TotalWeightMutant(points) == Len(points)

TotalWeight(points) == Sum([i \in 1..Len(points) |-> points[i][3]])

\* calculate_center_of_mass, lines 133-143.
calculate_center_of_mass(points) ==
    IF points = << >> THEN <<Zero, Zero>>
    ELSE IF TotalWeight(points) = 0 THEN <<Zero, Zero>>
    ELSE << <<Sum([i \in 1..Len(points) |-> points[i][1] * points[i][3]]), TotalWeight(points)>>,
            <<Sum([i \in 1..Len(points) |-> points[i][2] * points[i][3]]), TotalWeight(points)>> >>

\* np.median: the middle value, or the mean of the two middle values.
Median(values) ==
    LET s == Ascending(values)
        n == Len(s)
    IN  IF n % 2 = 1 THEN <<s[(n + 1) \div 2], 1>>
        ELSE <<s[n \div 2] + s[n \div 2 + 1], 2>>

\* np.std squared: (n * sum(v^2) - sum(v)^2) / n^2.
Variance(values) ==
    LET n == Len(values)
    IN  <<n * Sum([i \in 1..n |-> values[i] * values[i]]) - Sum(values) * Sum(values), n * n>>

\* Lines 157-166: the result for an empty list.
EmptyStatisticsMutant(values) ==
    [count |-> 0, min |-> Zero, max |-> Zero, mean |-> Zero, median |-> Zero,
     std_dev |-> [squared |-> Zero], center_of_mass |-> <<Zero, <<1, 1>>>>]

EmptyStatistics(values) ==
    [count |-> 0, min |-> Zero, max |-> Zero, mean |-> Zero, median |-> Zero,
     std_dev |-> [squared |-> Zero], center_of_mass |-> <<Zero, Zero>>]

\* calculate_statistics, lines 157-188; std_dev is given by its square.
calculate_statistics(values, geojson) ==
    IF values = << >> THEN EmptyStatistics(values)
    ELSE [count |-> Len(values),
          min |-> <<SetMin(Range(values)), 1>>,
          max |-> <<SetMax(Range(values)), 1>>,
          mean |-> <<Sum(values), Len(values)>>,
          median |-> Median(values),
          std_dev |-> [squared |-> Variance(values)],
          center_of_mass |->
              IF geojson.loaded
              THEN LET points == extract_data_with_coordinates(geojson)
                   IN  IF points # << >> THEN calculate_center_of_mass(points)
                       ELSE <<Zero, Zero>>
              ELSE <<Zero, Zero>>]

\* round(x, 2) of the fraction x, in hundredths; ties go to the even digit.
Round2(x) ==
    LET n == IF x[2] > 0 THEN 100 * x[1] ELSE -100 * x[1]
        d == IF x[2] > 0 THEN x[2] ELSE -x[2]
        q == n \div d
        r == n % d
    IN  IF 2 * r < d THEN q
        ELSE IF 2 * r > d THEN q + 1
        ELSE IF q % 2 = 0 THEN q ELSE q + 1

\* (mean2 - mean1) / mean1 * 100, lines 229-232 and 273-276.
PercentChange(mean1, mean2) ==
    <<100 * (mean2[1] * mean1[2] - mean1[1] * mean2[2]) * mean1[2], mean2[2] * mean1[2] * mean1[1]>>

\* a - b for fractions.
Minus(a, b) == <<a[1] * b[2] - b[1] * a[2], a[2] * b[2]>>

\* Lines 250 and 255: the change of a coordinate that counts as a shift.
ShiftThreshold == <<1, 1000>>

\* Lines 249-261: the direction string, as the sequence of the words added to it.
DirectionMutant(lon_diff, lat_diff) ==
    LET ns == IF Less(Zero, lat_diff) THEN <<"North">>
              ELSE IF Less(lat_diff, Zero) THEN <<"South">> ELSE << >>
        ew == IF Less(Zero, lon_diff) THEN <<"East">>
              ELSE IF Less(lon_diff, Zero) THEN <<"West">> ELSE << >>
    IN  IF ns \o ew = << >> THEN <<"No significant shift">> ELSE ns \o ew

Direction(lon_diff, lat_diff) ==
    LET ns == IF Less(ShiftThreshold, lat_diff) THEN <<"North">>
              ELSE IF Less(lat_diff, Minus(Zero, ShiftThreshold)) THEN <<"South">> ELSE << >>
        ew == IF Less(ShiftThreshold, lon_diff) THEN <<"East">>
              ELSE IF Less(lon_diff, Minus(Zero, ShiftThreshold)) THEN <<"West">> ELSE << >>
    IN  IF ns \o ew = << >> THEN <<"No significant shift">> ELSE ns \o ew

\* get_geojson_data, lines 21-52: None when the file is missing or is not JSON.
get_geojson_data(year) == IF year \in DOMAIN geojsons THEN geojsons[year] ELSE NoGeojson

NoTotal == {}

\* analyze_temporal_trends, lines 207-298; the shifts are exact, not rounded.
\* `reported` tells whether the result has the keys besides yearly_statistics.
analyze_temporal_trends(years) ==
    LET Found(y) == get_geojson_data(y).loaded
        sorted_years == SelectSeq(Ascending(years), Found)
        n == Len(sorted_years)
        yearly_stats ==
            [y \in Range(sorted_years) |->
                calculate_statistics(extract_data_values(get_geojson_data(y)),
                                     get_geojson_data(y))]
        mean(y) == yearly_stats[y].mean
        pairs == {<<sorted_years[i - 1], sorted_years[i]>> : i \in 2..n}
        changed == {pr \in pairs : Positive(mean(pr[2])) /\ Positive(mean(pr[1]))}
        changes == [pr \in changed |-> Round2(PercentChange(mean(pr[1]), mean(pr[2])))]
        center(y) == yearly_stats[y].center_of_mass
        shifted == {pr \in pairs : ~Same(center(pr[2])[1], Zero) /\ ~Same(center(pr[1])[1], Zero)}
        center_of_mass_shifts ==
            [pr \in shifted |->
                [direction |-> Direction(Minus(center(pr[2])[1], center(pr[1])[1]),
                                         Minus(center(pr[2])[2], center(pr[1])[2])),
                 longitude_shift |-> Minus(center(pr[2])[1], center(pr[1])[1]),
                 latitude_shift |-> Minus(center(pr[2])[2], center(pr[1])[2])]]
        total == Sum([i \in 1..(n - 1) |->
                        IF <<sorted_years[i], sorted_years[i + 1]>> \in changed
                        THEN changes[<<sorted_years[i], sorted_years[i + 1]>>] ELSE 0])
        only == [yearly_statistics |-> yearly_stats, reported |-> FALSE,
                 percent_changes |-> << >>, center_of_mass_shifts |-> << >>,
                 trend_direction |-> "",
                 average_yearly_change |-> 0, total_change |-> NoTotal]
    IN  IF n > 1 /\ Positive(mean(sorted_years[1])) /\ Positive(mean(sorted_years[n]))
        THEN [yearly_statistics |-> yearly_stats,
              reported |-> TRUE,
              percent_changes |-> changes,
              center_of_mass_shifts |-> center_of_mass_shifts,
              trend_direction |-> IF total > 0 THEN "increasing" ELSE "decreasing",
              average_yearly_change |->
                  IF changed # {} THEN Round2(<<total, 100 * Cardinality(changed)>>) ELSE 0,
              total_change |->
                  {[time_period |-> <<sorted_years[1], sorted_years[n]>>,
                    percent_change |->
                        Round2(PercentChange(mean(sorted_years[1]), mean(sorted_years[n])))]}]
        ELSE only

\* The regions found, in the order of their first insertion into the dict.
RECURSIVE Inserted(_)
Inserted(countries) ==
    IF countries = << >> THEN << >>
    ELSE LET before == Inserted(SubSeq(countries, 1, Len(countries) - 1))
             last == countries[Len(countries)]
         IN  IF get_geojson_data(last).loaded /\ last \notin Range(before)
             THEN Append(before, last) ELSE before

\* max(items, key=...)[0] and min(items, key=...)[0]: the first region in
\* insertion order that no other region beats.
HighestMutant(order, key) == order[1]

Highest(order, key) ==
    order[SetMin({i \in 1..Len(order) :
                    \A j \in 1..Len(order) : ~Less(key[order[i]], key[order[j]])})]

Lowest(order, key) ==
    order[SetMin({i \in 1..Len(order) :
                    \A j \in 1..Len(order) : ~Less(key[order[j]], key[order[i]])})]

\* Line 340: the centers of mass are compared when two regions have statistics.
Compared(order) == Len(order) > 1

\* compare_regions, lines 317-363.  std_dev is ranked by its square.
compare_regions(countries) ==
    LET order == Inserted(countries)
        regional_stats ==
            [c \in Range(order) |->
                calculate_statistics(extract_data_values(get_geojson_data(c)),
                                     get_geojson_data(c))]
        centers_of_mass == [c \in Range(order) |-> regional_stats[c].center_of_mass]
        By(field) == [c \in Range(order) |-> regional_stats[c][field]]
        spread == [c \in Range(order) |-> regional_stats[c].std_dev.squared]
        latitude == [c \in Range(order) |-> centers_of_mass[c][2]]
        longitude == [c \in Range(order) |-> centers_of_mass[c][1]]
        rankings ==
            [highest_mean |-> Highest(order, By("mean")),
             lowest_mean |-> Lowest(order, By("mean")),
             highest_max |-> Highest(order, By("max")),
             most_variable |-> Highest(order, spread),
             highest_median |-> Highest(order, By("median")),
             lowest_median |-> Lowest(order, By("median"))]
        directions ==
            [northernmost_center |-> Highest(order, latitude),
             southernmost_center |-> Lowest(order, latitude),
             easternmost_center |-> Highest(order, longitude),
             westernmost_center |-> Lowest(order, longitude)]
    IN  IF order # << >>
        THEN [regional_statistics |-> regional_stats,
              ranked |-> TRUE,
              centers_of_mass |-> centers_of_mass,
              rankings |-> IF Compared(order) THEN rankings @@ directions ELSE rankings]
        ELSE [regional_statistics |-> regional_stats,
              ranked |-> FALSE,
              centers_of_mass |-> << >>,
              rankings |-> << >>]

\* Line 394: the sample size a year needs.
MinPairs == 10

EnoughMutant(min_length) == min_length >= 0

Enough(min_length) == ~(min_length < MinPairs)

\* analyze_correlations, lines 380-415.  geojsons is keyed by <<dataset, year>>;
\* a year's correlation is given by the two lists handed to np.corrcoef, and
\* `averaged` tells whether the result has the keys besides yearly_correlations.
analyze_correlations(years) ==
    LET pop_values(y) == extract_data_values(get_geojson_data(<<"PopDensity", y>>))
        precip_values(y) == extract_data_values(get_geojson_data(<<"Precipitation", y>>))
        min_length(y) == IF Len(pop_values(y)) < Len(precip_values(y))
                         THEN Len(pop_values(y)) ELSE Len(precip_values(y))
        kept == {y \in Range(years) :
                    /\ get_geojson_data(<<"PopDensity", y>>).loaded
                    /\ get_geojson_data(<<"Precipitation", y>>).loaded
                    /\ Enough(min_length(y))}
    IN  [yearly_correlations |->
             [y \in kept |-> [pop_values |-> SubSeq(pop_values(y), 1, min_length(y)),
                              precip_values |-> SubSeq(precip_values(y), 1, min_length(y))]],
         averaged |-> kept # {}]

NoStat == [fn |-> "none"]

\* extract_data_values and extract_data_with_coordinates of one document, and
\* the statistics derived from them.
ExtractData(geojson) ==
    /\ stat.fn = "none"
    /\ stat' = [fn |-> "extract_data_values", geojson |-> geojson,
                values |-> extract_data_values(geojson),
                points |-> extract_data_with_coordinates(geojson),
                statistics |-> calculate_statistics(extract_data_values(geojson), geojson)]
    /\ UNCHANGED <<geojsons, exceptStat>>

CalculateStatistics(values, geojson) ==
    /\ stat.fn = "none"
    /\ stat' = [fn |-> "calculate_statistics", values |-> values, geojson |-> geojson,
                statistics |-> calculate_statistics(values, geojson)]
    /\ UNCHANGED <<geojsons, exceptStat>>

\* Every value multiplied by k.
Scaled(points, k) == [i \in 1..Len(points) |-> <<points[i][1], points[i][2], k * points[i][3]>>]

\* calculate_center_of_mass of a list, and of the list with its values scaled.
CalculateCenterOfMass(points, k) ==
    /\ stat.fn = "none"
    /\ stat' = [fn |-> "calculate_center_of_mass", points |-> points, k |-> k,
                center |-> calculate_center_of_mass(points),
                scaled |-> calculate_center_of_mass(Scaled(points, k))]
    /\ UNCHANGED <<geojsons, exceptStat>>

AnalyzeTemporalTrends(years) ==
    /\ stat.fn = "none"
    /\ stat' = [fn |-> "analyze_temporal_trends", years |-> years,
                trends |-> analyze_temporal_trends(years)]
    /\ UNCHANGED <<geojsons, exceptStat>>

CompareRegions(countries) ==
    /\ stat.fn = "none"
    /\ stat' = [fn |-> "compare_regions", countries |-> countries,
                comparison |-> compare_regions(countries)]
    /\ UNCHANGED <<geojsons, exceptStat>>

AnalyzeCorrelations(years) ==
    /\ stat.fn = "none"
    /\ stat' = [fn |-> "analyze_correlations", years |-> years,
                correlation |-> analyze_correlations(years)]
    /\ UNCHANGED <<geojsons, exceptStat>>

\* The caller (data_analysis node) takes the result.
StatReturn ==
    /\ stat.fn # "none"
    /\ stat' = NoStat
    /\ UNCHANGED <<geojsons, exceptStat>>

----------------------------------------------------------------------------
(* stream_geo_chat (GeoChatAgent/agent.py) *)

\* Bound: instructions carried by the events of one graph run.
MaxEvents == 3

Streams == {1, 2}

\* The instructions a run may produce, as their JSON text.
InstructionJsons == {"SET_CENTER", "SET_GEOJSON"}

\* hash(instruction_json); collisions of the hash are not modelled.
Hash(instruction_json) == <<"hash", instruction_json>>

\* stream[s].events: the instructions of the events the graph emits, in order
\* (an event with a frontend_actions list gives one per action; the same
\* instruction may come with several events); stream[s].at: those handled.
StreamIdle == [pc |-> "idle", events |-> << >>, at |-> 0, yielded |-> << >>]

\* Lines 46-50: the set is emptied when a stream starts.
AfterStart(sent) == {}

\* stream_geo_chat up to `async for`: the function attribute is reset.
StreamStart(s, events) ==
    /\ stream[s].pc = "idle"
    /\ sent_instructions' = AfterStart(sent_instructions)
    /\ stream' = [stream EXCEPT ![s] = [StreamIdle EXCEPT !.pc = "running", !.events = events]]
    /\ UNCHANGED exceptChat

\* Lines 135-150 and 153-170: one instruction of an event; it is yielded
\* unless its hash is in the set, and the hash is added.
StreamInstruction(s) ==
    LET st == stream[s]
        instruction_json == st.events[st.at + 1]
        instruction_hash == Hash(instruction_json)
    IN  /\ st.pc = "running"
        /\ st.at < Len(st.events)
        /\ IF instruction_hash \notin sent_instructions
           THEN /\ sent_instructions' = sent_instructions \cup {instruction_hash}
                /\ stream' = [stream EXCEPT ![s].at = st.at + 1,
                                            ![s].yielded = Append(@, instruction_json)]
           ELSE /\ stream' = [stream EXCEPT ![s].at = st.at + 1]
                /\ UNCHANGED sent_instructions
        /\ UNCHANGED exceptChat

\* The graph has no more events: the generator ends.
StreamComplete(s) ==
    /\ stream[s].pc = "running"
    /\ stream[s].at = Len(stream[s].events)
    /\ stream' = [stream EXCEPT ![s].pc = "complete"]
    /\ UNCHANGED <<sent_instructions, exceptChat>>

\* The response has been sent; the next request may use the slot.
StreamClose(s) ==
    /\ stream[s].pc = "complete"
    /\ stream' = [stream EXCEPT ![s] = StreamIdle]
    /\ UNCHANGED <<sent_instructions, exceptChat>>

----------------------------------------------------------------------------
(* The instruction loop of the GeoChatAgent workflow (agent.py, nodes.py) *)

\* Bound: actions of the list create_instructions returns.
MaxActions == 3

\* MapBoxActions the language model may list.
ActionNames == {"SET_GEOJSON", "SET_CENTER", "SET_ZOOM", "ANALYZE_DATA", "NONE"}

\* flow.explicit: the user's message holds one of the explicit analysis terms;
\* flow.replaced: how often the list was replaced (counted up to 2).
FlowIdle ==
    [node |-> "none", instructions_list |-> << >>, explicit |-> FALSE,
     frontend_actions |-> << >>, replaced |-> 0]

\* create_instructions (line 394) and the edge to "instructions" (agent.py, 18).
CreateInstructions(actions, explicit) ==
    /\ flow.node = "none"
    /\ flow' = [FlowIdle EXCEPT !.node = "instructions", !.instructions_list = actions,
                                !.explicit = explicit]
    /\ UNCHANGED exceptFlow

\* Lines 437-456: the list after ANALYZE_DATA was popped from it, `rest` being
\* what is left.
AfterAnalyzeMutant(is_explicit_analysis, rest) ==
    IF ~is_explicit_analysis THEN <<"ANALYZE_DATA">> \o rest ELSE rest

AfterAnalyze(is_explicit_analysis, rest) ==
    IF ~is_explicit_analysis THEN <<"SET_GEOJSON", "SET_CENTER">> ELSE rest

\* is_more_instructions (lines 1156-1167) with the mapping of agent.py, 23-30.
is_more_instructions(instructions_list) ==
    IF Len(instructions_list) > 0 THEN "instructions" ELSE "chat_agent"

AfterInstructions(instructions_list) ==
    IF is_more_instructions(instructions_list) = "instructions" THEN "instructions" ELSE "END"

\* One pass through the node "instructions" (lines 419-805) and the
\* conditional edge after it; `located`: a target country was found for the
\* analysis (line 556).
instructions(located) ==
    LET list == flow.instructions_list
        next_action == list[1]
        rest == Tail(list)
        replacing == next_action = "ANALYZE_DATA" /\ ~flow.explicit
        added == IF next_action = "ANALYZE_DATA"
                 THEN IF flow.explicit
                      THEN (IF located THEN <<"SET_CENTER">> ELSE << >>) \o <<"ANALYZE_DATA">>
                      ELSE << >>
                 ELSE IF next_action \in {"SET_CENTER", "SET_ZOOM", "SET_GEOJSON"}
                 THEN <<next_action>>
                 ELSE << >>
        after == IF next_action = "ANALYZE_DATA" THEN AfterAnalyze(flow.explicit, rest) ELSE rest
    IN  /\ flow.node = "instructions"
        /\ flow' =
              IF list = << >>
              THEN [flow EXCEPT !.node = AfterInstructions(list)]
              ELSE [flow EXCEPT !.node = AfterInstructions(after),
                                !.instructions_list = after,
                                !.frontend_actions = @ \o added,
                                !.replaced = IF replacing /\ @ < 2 THEN @ + 1 ELSE @]
        /\ UNCHANGED exceptFlow

\* The run is over; its state is dropped.
FlowEnd ==
    /\ flow.node = "END"
    /\ flow' = FlowIdle
    /\ UNCHANGED exceptFlow

----------------------------------------------------------------------------
(* The CreateGIF and GeoFiles workflows (builderz/backend/graphs) *)

WfGraphs == {"CreateGIF", "GeoFiles"}

\* The nodes that load or write data.
DataProducing == {"fetch_data", "create_visualization", "generate_files"}

WfNodes == DataProducing \cup {"parse_query", "generate_response"}

\* wf.data: state["data"] is not None; wf.time_series: start_year and end_year
\* are both set.  No request is being processed while wf.node = "idle".
WfIdle ==
    [graph |-> "CreateGIF", node |-> "idle", query_type |-> "unknown", region |-> "",
     datasets |-> << >>, time_series |-> FALSE, data |-> FALSE, error |-> "",
     messages |-> << >>]

\* initial_state of process_visualization_request (CreateGIF/agent.py, 113-127)
\* and of process_geofiles_request (GeoFiles/agent.py, 121-135).
initial_state(graph) ==
    [WfIdle EXCEPT !.graph = graph, !.node = "parse_query",
                   !.query_type = IF graph = "CreateGIF" THEN "unknown" ELSE "file_download"]

\* What the two parsers of parse_query can come to: both raised, or one of
\* them returned parameters.
ParseFailed ==
    [failed |-> TRUE, query_type |-> "unknown", region |-> "", datasets |-> << >>,
     time_series |-> FALSE]

ParseOutcomes ==
    {ParseFailed} \cup
    [failed : {FALSE}, query_type : {"visualization", "data_only", "other"},
     region : {"", "assaba"},
     datasets : {<< >>, <<"Climate_Precipitation_Data">>,
                 <<"Climate_Precipitation_Data", "Gridded_Population_Density_Data">>},
     time_series : BOOLEAN]

\* determine_next_step of CreateGIF/utils/routers.py: the branch taken and the
\* error the router writes into the state it was handed.
determine_next_step(state) ==
    IF state.error # "" THEN [step |-> "error", error |-> state.error]
    ELSE IF state.query_type = "visualization"
    THEN IF ~state.data
         THEN [step |-> "error", error |-> "No data available to visualize"]
         ELSE [step |-> "visualization", error |-> ""]
    ELSE IF state.query_type = "data_only"
    THEN IF ~state.data
         THEN [step |-> "error", error |-> "No data available"]
         ELSE [step |-> "data_only", error |-> ""]
    ELSE [step |-> "error", error |-> "Unknown query type"]

\* determine_next_step of GeoFiles/utils/routers.py.
GeoFilesNextStep(state) == IF state.error # "" THEN "error" ELSE "process"

\* The edges that leave parse_query: unconditional in CreateGIF (agent.py, 41),
\* through the router in GeoFiles (agent.py, 39-46).
AfterParse(state) ==
    IF state.graph = "CreateGIF" THEN "fetch_data"
    ELSE IF GeoFilesNextStep(state) = "process" THEN "generate_files" ELSE "generate_response"

\* The mapping of the conditional edges after fetch_data (CreateGIF/agent.py, 44-52).
AfterFetch(step) ==
    IF step = "visualization" THEN "create_visualization"
    ELSE IF step = "data_only" THEN "generate_response"
    ELSE "END"

\* A request enters a workflow; the state of the request before it is dropped.
Invoke(graph) ==
    /\ wf.node \in {"idle", "END"}
    /\ wf' = initial_state(graph)
    /\ UNCHANGED exceptWf

\* parse_query (nodes.py, 27-111 in CreateGIF, 26-110 in GeoFiles) and the edge
\* after it.
parse_query(outcome) ==
    /\ wf.node = "parse_query"
    /\ LET updated ==
               IF outcome.failed
               THEN [wf EXCEPT !.error = "Could not parse query",
                               !.messages = @ \o <<"I couldn't understand your request. Could you please rephrase it?">>]
               ELSE [wf EXCEPT !.query_type = IF wf.graph = "CreateGIF"
                                              THEN outcome.query_type ELSE "file_download",
                               !.region = outcome.region,
                               !.datasets = outcome.datasets,
                               !.time_series = outcome.time_series,
                               !.messages = @ \o <<"Understood request">>]
       IN  wf' = [updated EXCEPT !.node = AfterParse(updated)]
    /\ UNCHANGED exceptWf

\* fetch_data (CreateGIF nodes.py, 114-190) and the conditional edge after it;
\* `found`: some dataset could be loaded; `kept`: the graph keeps what the
\* router wrote into the state.
fetch_data(found, kept) ==
    /\ wf.node = "fetch_data"
    /\ LET updated ==
               IF wf.region = "" \/ wf.datasets = << >>
               THEN [wf EXCEPT !.error = "Missing required parameters (region or datasets)",
                               !.messages = @ \o <<"I need to know what region and datasets you're interested in.">>]
               ELSE IF ~found
               THEN [wf EXCEPT !.error = "No data available",
                               !.messages = @ \o <<"I couldn't find any data">>]
               ELSE [wf EXCEPT !.data = TRUE, !.messages = @ \o <<"Found data">>]
           routed == determine_next_step(updated)
       IN  wf' = [updated EXCEPT !.node = AfterFetch(routed.step),
                                 !.error = IF kept THEN routed.error ELSE @]
    /\ UNCHANGED exceptWf

\* create_visualization (create_visualization.py, 11-135); `made`: a GIF, TIF
\* or MBTiles file was written.
create_visualization(made) ==
    /\ wf.node = "create_visualization"
    /\ LET updated ==
               IF ~wf.data
               THEN [wf EXCEPT !.messages = @ \o <<"I don't have any data to create visualizations with.">>]
               ELSE IF ~wf.time_series
               THEN [wf EXCEPT !.error = "Only time series visualizations are supported for this request",
                               !.messages = @ \o <<"I can only generate sequences of .tif and .mbtiles files for time series data.">>]
               ELSE IF ~made
               THEN [wf EXCEPT !.error = "Failed to create any visualizations",
                               !.messages = @ \o <<"I couldn't create any visualizations from the available data.">>]
               ELSE [wf EXCEPT !.messages = @ \o <<"Created visualizations">>]
       IN  wf' = [updated EXCEPT !.node = "generate_response"]
    /\ UNCHANGED exceptWf

\* generate_files (GeoFiles nodes.py, 113-221); `made`: a file was written.
generate_files(made) ==
    /\ wf.node = "generate_files"
    /\ LET updated ==
               IF wf.region = "" \/ wf.datasets = << >>
               THEN [wf EXCEPT !.error = "Missing required parameters (region or datasets)",
                               !.messages = @ \o <<"I need to know what region and datasets you're interested in.">>]
               ELSE IF ~made
               THEN [wf EXCEPT !.error = "Failed to generate any files",
                               !.messages = @ \o <<"I couldn't generate any files from the available data.">>]
               ELSE [wf EXCEPT !.messages = @ \o <<"Generated files">>]
       IN  wf' = [updated EXCEPT !.node = "generate_response"]
    /\ UNCHANGED exceptWf

\* generate_response: CreateGIF's returns the error it found and no message
\* (generate_response.py, 19-23); GeoFiles' appends one message (nodes.py,
\* 224 and on).
generate_response ==
    /\ wf.node = "generate_response"
    /\ wf' = [wf EXCEPT !.node = "END",
                        !.messages = IF wf.graph = "GeoFiles"
                                     THEN @ \o <<IF wf.error # "" THEN "I encountered an error"
                                                 ELSE "Generated response">>
                                     ELSE @]
    /\ UNCHANGED exceptWf

----------------------------------------------------------------------------
(* GET /timeline-gif (main.py) *)

valid_countries ==
    {"Mali", "Chad", "Niger", "Burkina_Faso", "Mauritania", "Senegal", "Sudan"}

valid_datasets == {"PopDensity", "Precipitation"}

MinGifYear == 2010

MaxGifYear == 2020

\* max(2010, min(2020, year)), lines 320-321.
ClampYear(year) ==
    LET capped == IF year < MaxGifYear THEN year ELSE MaxGifYear
    IN  Max2(MinGifYear, capped)

\* The names of the files in the working directory, as the parts they are
\* formatted from (line 325); timeline.gif is the fallback (line 329).
param_filename(dataset, country, start, end) == <<dataset, country, start, end>>

default_path == <<"timeline", "", 0, 0>>

\* The files the requests of the model can ask for.
GifNames ==
    {param_filename("PopDensity", "Mali", 2015, 2020),
     param_filename("Precipitation", "Chad", 2010, 2020),
     default_path}

\* No request has been answered.
NoResponse ==
    [pc |-> "idle", country |-> "", dataset |-> "", start |-> 0, end |-> 0,
     status_code |-> 0, detail |-> "", served |-> << >>]

\* The try block of lines 333-355: what it returns or raises; `fails`: a call
\* on a file that was found raises (os.path.getsize, FileResponse).
TryServe(param, fails) ==
    IF param \in gifs
    THEN IF fails THEN [raised |-> "OSError", status_code |-> 0, detail |-> "", served |-> << >>]
         ELSE [raised |-> "", status_code |-> 200, detail |-> "", served |-> param]
    ELSE IF default_path \in gifs
    THEN IF fails THEN [raised |-> "OSError", status_code |-> 0, detail |-> "", served |-> << >>]
         ELSE [raised |-> "", status_code |-> 200, detail |-> "", served |-> default_path]
    ELSE [raised |-> "HTTPException", status_code |-> 404, detail |-> "Timeline GIF not found",
          served |-> << >>]

\* except Exception (lines 356-358): HTTPException is an Exception, so the
\* handler catches what line 355 raised as well.
Handled(tried) ==
    IF tried.raised # ""
    THEN [status_code |-> 500, detail |-> "Error serving GIF", served |-> << >>]
    ELSE [status_code |-> tried.status_code, detail |-> tried.detail, served |-> tried.served]

\* get_timeline_gif, lines 299-358.
get_timeline_gif(country, dataset, start, end, fails) ==
    LET c == IF country \notin valid_countries THEN "Mali" ELSE country
        d == IF dataset \notin valid_datasets THEN "PopDensity" ELSE dataset
        s == ClampYear(start)
        e == ClampYear(end)
        response == Handled(TryServe(param_filename(d, c, s, e), fails))
    IN  /\ http.pc = "idle"
        /\ http' = [pc |-> "responded", country |-> c, dataset |-> d, start |-> s, end |-> e,
                    status_code |-> response.status_code, detail |-> response.detail,
                    served |-> response.served]
        /\ UNCHANGED <<gifs, exceptHttp>>

\* The response has been sent.
HttpDone ==
    /\ http.pc = "responded"
    /\ http' = NoResponse
    /\ UNCHANGED <<gifs, exceptHttp>>

\* A GIF is written into the working directory, or removed from it.
GifWritten(name) ==
    /\ http.pc = "idle"
    /\ name \notin gifs
    /\ gifs' = gifs \cup {name}
    /\ UNCHANGED <<http, exceptHttp>>

GifRemoved(name) ==
    /\ http.pc = "idle"
    /\ name \in gifs
    /\ gifs' = gifs \ {name}
    /\ UNCHANGED <<http, exceptHttp>>

----------------------------------------------------------------------------
(* Components at rest: the values their variables have while another
   component's specification runs. *)

CacheOff ==
    /\ disk = << >>
    /\ TIF_CACHE = EmptyCache
    /\ loadPc = LoadDone
    /\ files = {}
    /\ loadLog = {}
    /\ proc = [p \in Procs |-> Idle]

RenderOff == tiffs = << >> /\ render = NoCall

ConvOff == tmpfs = << >> /\ tmpCount = 0 /\ conv = [w \in Workers |-> ConvIdle]

GeoOff ==
    /\ geofs = << >>
    /\ clock = 0
    /\ geo = [r \in GeoRequests |-> GeoIdle]
    /\ batch = NoBatch

StatOff == geojsons = << >> /\ stat = NoStat

ChatOff == sent_instructions = {} /\ stream = [s \in Streams |-> StreamIdle]

FlowOff == flow = FlowIdle

WfOff == wf = WfIdle

HttpOff == gifs = {} /\ http = NoResponse

AppOff == ChatOff /\ FlowOff /\ WfOff /\ HttpOff

----------------------------------------------------------------------------
(* Specifications *)

\* Spec: load_all_tifs from its first line to its return (processing.py:89).
Init ==
    /\ disk \in Disks
    /\ TIF_CACHE = EmptyCache
    /\ loadPc = 1
    /\ files = Glob(LoadOrder[1])
    /\ loadLog = {}
    /\ proc = [p \in Procs |-> Idle]
    /\ RenderOff
    /\ ConvOff
    /\ GeoOff
    /\ StatOff
    /\ AppOff

LoadStep == \E f \in FilePool : LoadFile(f)

Next ==
    \/ LoadStep
    \/ NextFolder

Spec == Init /\ [][Next]_vars

\* SpecCompose: the module is imported (load_all_tifs has returned) and one
\* caller at a time calls load_and_preprocess_tif.  The directory holds layers
\* of the year 2010 only, so that every request for 2011 misses.
ComposeDisks ==
    DisksOf(Datasets \X {<<2, 0, 1, 0>>},
            {c \in Contents : c.ok /\ c # [ok |-> TRUE, h |-> 1, w |-> 1]}, MaxFiles)

InitCompose ==
    /\ disk \in ComposeDisks
    /\ TIF_CACHE = Loaded(disk)
    /\ loadPc = LoadDone
    /\ files = {}
    /\ loadLog = {}
    /\ proc = [p \in Procs |-> Idle]
    /\ RenderOff
    /\ ConvOff
    /\ GeoOff
    /\ StatOff
    /\ AppOff

Requests == Regions \X Years \X SeqsUpTo(RequestNames, MaxLen)

NextCompose ==
    \/ \E r \in Requests : Collect(1, r[1], r[2], r[3])
    \/ Stack(1)
    \/ Consume(1)

SpecCompose == InitCompose /\ [][NextCompose]_vars

\* SpecShared: load_all_tifs, then two callers of load_and_preprocess_tif whose
\* calls interleave.  Two datasets, one year.
SharedNames == {LoadOrder[1], LoadOrder[2]}

SharedDisks ==
    DisksOf(SharedNames \X {<<2, 0, 1, 0>>},
            {c \in Contents : c # [ok |-> TRUE, h |-> 1, w |-> 1]
                              /\ c # [ok |-> TRUE, h |-> 2, w |-> 2]}, MaxFiles)

InitShared ==
    /\ disk \in SharedDisks
    /\ TIF_CACHE = EmptyCache
    /\ loadPc = 1
    /\ files = Glob(LoadOrder[1])
    /\ loadLog = {}
    /\ proc = [p \in Procs |-> Idle]
    /\ RenderOff
    /\ ConvOff
    /\ GeoOff
    /\ StatOff
    /\ AppOff

SharedRequests == {"Assaba", "mali"} \X {2010} \X SeqsUpTo(SharedNames, MaxLen)

NextShared ==
    \/ LoadStep
    \/ NextFolder
    \/ \E p \in Procs : \E r \in SharedRequests : Collect(p, r[1], r[2], r[3])
    \/ \E p \in Procs : Stack(p)
    \/ \E p \in Procs : Consume(p)

SpecShared == InitShared /\ [][NextShared]_vars

InitRender ==
    /\ tiffs \in TiffFolders
    /\ render = NoCall
    /\ CacheOff
    /\ ConvOff
    /\ GeoOff
    /\ StatOff
    /\ AppOff

StartYears == {FirstYear - 1, FirstYear, FirstYear + 1}

EndYears == {FirstYear, FirstYear + 2, LastYear + 1}

NextRender ==
    \/ \E d \in Kinds, c \in Countries, sy \in StartYears, ey \in EndYears :
          CreateGifTimeline(d, c, sy, ey)
    \/ \E o \in SeriesOrders : CreateTimeSeriesGif(o)
    \/ EndRun

SpecRender == InitRender /\ [][NextRender]_vars

\* SpecConv: two callers of convert_tif_to_mbtiles_in_memory; every step that
\* touches the file system or runs the tool may fail.
InitConv ==
    /\ tmpfs = << >>
    /\ tmpCount = 0
    /\ conv = [w \in Workers |-> ConvIdle]
    /\ CacheOff
    /\ RenderOff
    /\ GeoOff
    /\ StatOff
    /\ AppOff

NextConv ==
    \/ \E w \in Workers : ConvCall(w)
    \/ \E w \in Workers, ok \in BOOLEAN : CreateTif(w, ok)
    \/ \E w \in Workers, ok \in BOOLEAN : WriteTif(w, ok)
    \/ \E w \in Workers, ok \in BOOLEAN : CreateMbtiles(w, ok)
    \/ \E w \in Workers, o \in ToolOutcomes, e \in Stderrs, a \in Archives :
          RunTool(w, o, e, a)
    \/ \E w \in Workers, ok \in BOOLEAN : ReadArchive(w, ok)
    \/ \E w \in Workers : Cleanup(w)
    \/ \E w \in Workers : ConvReturn(w)

SpecConv == InitConv /\ [][NextConv]_vars

\* SpecGeo: one caller of process_time_series_files, and calls of
\* create_time_series_mbtiles, over a loaded cache; every external tool may
\* exit with any code, write any stderr, and write its output or not.
GeoDisks ==
    DisksOf({GeoDataset} \X {<<2, 0, 1, 0>>, <<2, 0, 1, 1>>}, {[ok |-> TRUE, h |-> 1, w |-> 2]},
            MaxFiles)

\* Files an earlier run left in the output directory.
StaleFolders ==
    {<< >>, WithFile(<< >>, GeoPath("temp_geojson", 2010, 0), GeoFile("temp_geojson", 0))}

GeoYears == {2010, 2011}

GeoFormatLists == {<<"tif", "mbtiles", "geojson">>, <<"tif", "geojson">>, <<"mbtiles">>}

BatchOrders ==
    {o \in SeqsUpTo(BatchYears, MaxBatch) : \A i, j \in 1..Len(o) : i # j => o[i] # o[j]}

InitGeo ==
    /\ disk \in GeoDisks
    /\ TIF_CACHE = Loaded(disk)
    /\ loadPc = LoadDone
    /\ files = {}
    /\ loadLog = {}
    /\ proc = [p \in Procs |-> Idle]
    /\ geofs \in StaleFolders
    /\ clock = 0
    /\ geo = [r \in GeoRequests |-> GeoIdle]
    /\ batch = NoBatch
    /\ RenderOff
    /\ ConvOff
    /\ StatOff
    /\ AppOff

NextGeo ==
    \/ \E sy \in GeoYears, ey \in GeoYears, f \in GeoFormatLists :
          GeoCall(1, sy, ey, f)
    \/ GeoLoad(1)
    \/ GeoSaveTif(1)
    \/ \E x \in GeoExits, e \in GeoStderrs, w \in BOOLEAN : GeoMbtiles(1, x, e, w)
    \/ \E x \in GeoExits, e \in GeoStderrs, w \in BOOLEAN : Polygonize(1, x, e, w)
    \/ \E x \in GeoExits, e \in GeoStderrs, w \in BOOLEAN : Simplify(1, x, e, w)
    \/ GeoYearDone(1)
    \/ Tick
    \/ \E o \in BatchOrders : BatchCall(o)
    \/ \E out \in ConvOutcomes : BatchConvert(out)
    \/ BatchReturn

SpecGeo == InitGeo /\ [][NextGeo]_vars

\* SpecGeoShared: two callers at the same time, each asking once for the TIF
\* and the GeoJSON of the same year.
InitGeoShared ==
    /\ disk \in {d \in GeoDisks : <<GeoDataset, <<2, 0, 1, 0>>>> \in DOMAIN d}
    /\ TIF_CACHE = Loaded(disk)
    /\ loadPc = LoadDone
    /\ files = {}
    /\ loadLog = {}
    /\ proc = [p \in Procs |-> Idle]
    /\ geofs = << >>
    /\ clock = 0
    /\ geo = [r \in GeoRequests |-> GeoIdle]
    /\ batch = NoBatch
    /\ RenderOff
    /\ ConvOff
    /\ StatOff
    /\ AppOff

NextGeoShared ==
    \/ \E r \in GeoRequests : GeoCall(r, 2010, 2010, <<"tif", "geojson">>)
    \/ \E r \in GeoRequests : GeoLoad(r)
    \/ \E r \in GeoRequests : GeoSaveTif(r)
    \/ \E r \in GeoRequests, x \in GeoExits, w \in BOOLEAN : Polygonize(r, x, "warning", w)
    \/ \E r \in GeoRequests, x \in GeoExits, w \in BOOLEAN : Simplify(r, x, "warning", w)
    \/ \E r \in GeoRequests : GeoYearDone(r)
    \/ Tick

SpecGeoShared == InitGeoShared /\ [][NextGeoShared]_vars

\* SpecStats: the methods of DataAnalysisTool applied to bounded inputs; the
\* GeoJSON files of 2015-2017 are any of TrendGeojsons.
TrendYears == {2015, 2016, 2017}

Feature(n) == [dn |-> [kind |-> "number", n |-> n], geometry |-> NoGeometry]

TrendGeojsons == {NoGeojson, Geojson(<< >>), Geojson(<<Feature(1)>>), Geojson(<<Feature(3)>>)}

TrendLists == {<<2015, 2016, 2017>>, <<2017, 2015, 2016>>, <<2016, 2017>>, <<2015>>, << >>}

Geojsons == {NoGeojson, Unkeyed} \cup {Geojson(f) : f \in SeqsUpTo(Features, MaxFeatures)}

\* A feature with an observation and a place.
Spot == [dn |-> [kind |-> "number", n |-> 3], geometry |-> [type |-> "Point", lon |-> 2, lat |-> 0]]

StatGeojsons == TrendGeojsons \cup {Geojson(<<Spot>>)}

ValueLists == SeqsUpTo({1, 2, 4}, MaxValues)

PointLists == SeqsUpTo({-1, 2} \X {0, 3} \X {-1, 0, 1, 2}, MaxPoints)

Factors == {2, 3}

InitStats ==
    /\ geojsons \in [TrendYears -> TrendGeojsons]
    /\ stat = NoStat
    /\ CacheOff
    /\ RenderOff
    /\ ConvOff
    /\ GeoOff
    /\ AppOff

NextStats ==
    \/ \E g \in Geojsons : ExtractData(g)
    \/ \E v \in ValueLists, g \in StatGeojsons : CalculateStatistics(v, g)
    \/ \E pts \in PointLists, k \in Factors : CalculateCenterOfMass(pts, k)
    \/ \E y \in TrendLists : AnalyzeTemporalTrends(y)
    \/ StatReturn

SpecStats == InitStats /\ [][NextStats]_vars

\* SpecRegions: compare_regions of one dataset and year; geojsons holds the
\* document of every region.
RegionNames == {"Mali", "Niger", "Chad"}

\* An observation of 1 at another place than Spot.
North == [dn |-> [kind |-> "number", n |-> 1], geometry |-> [type |-> "Point", lon |-> -1, lat |-> 3]]

RegionGeojsons ==
    {NoGeojson, Geojson(<< >>), Geojson(<<Feature(1), Feature(3)>>), Geojson(<<Spot>>),
     Geojson(<<North, Feature(3)>>)}

MaxRegions == 3

InitRegions ==
    /\ geojsons \in [RegionNames -> RegionGeojsons]
    /\ stat = NoStat
    /\ CacheOff
    /\ RenderOff
    /\ ConvOff
    /\ GeoOff
    /\ AppOff

NextRegions ==
    \/ \E c \in SeqsUpTo(RegionNames, MaxRegions) : CompareRegions(c)
    \/ StatReturn

SpecRegions == InitRegions /\ [][NextRegions]_vars

\* SpecCorrelations: analyze_correlations of one country; geojsons holds the
\* documents of both datasets for every year.
CorrDatasets == {"PopDensity", "Precipitation"}

CorrYears == {2015, 2016}

\* A document of n features with the observations 1, 2, ... n.
Counting(n) == Geojson([i \in 1..n |-> Feature(i)])

\* Documents around the sample size: 9, 10 and 11 observations, and 10
\* features of which one has the observation 0.
CorrGeojsons ==
    {NoGeojson, Counting(MinPairs - 1), Counting(MinPairs), Counting(MinPairs + 1),
     Geojson(Counting(MinPairs - 1).features \o <<Feature(0)>>)}

MaxCorrYears == 2

InitCorrelations ==
    /\ geojsons \in [CorrDatasets \X CorrYears -> CorrGeojsons]
    /\ stat = NoStat
    /\ CacheOff
    /\ RenderOff
    /\ ConvOff
    /\ GeoOff
    /\ AppOff

NextCorrelations ==
    \/ \E y \in SeqsUpTo(CorrYears \cup {2014}, MaxCorrYears) : AnalyzeCorrelations(y)
    \/ StatReturn

SpecCorrelations == InitCorrelations /\ [][NextCorrelations]_vars

\* SpecShifts: analyze_temporal_trends over documents whose centers of mass
\* lie 0, 0.001 and 0.002 apart on either axis.
Place(lon, lat, n) == [dn |-> [kind |-> "number", n |-> n], geometry |-> [type |-> "Point", lon |-> lon, lat |-> lat]]

ShiftGeojsons ==
    {NoGeojson,
     Geojson(<<Feature(1)>>),
     Geojson(<<Place(1, 1, 1)>>),
     Geojson(<<Place(1, 1, 999), Place(2, 2, 1)>>),
     Geojson(<<Place(1, 1, 998), Place(2, 2, 2)>>),
     Geojson(<<Place(1, 1, 998), Place(2, 1, 2)>>),
     Geojson(<<Place(1, 1, 998), Place(1, 2, 2)>>),
     Geojson(<<Place(1, 1, 998), Place(2, 0, 2)>>)}

InitShifts ==
    /\ geojsons \in [TrendYears -> ShiftGeojsons]
    /\ stat = NoStat
    /\ CacheOff
    /\ RenderOff
    /\ ConvOff
    /\ GeoOff
    /\ AppOff

NextShifts ==
    \/ \E y \in TrendLists : AnalyzeTemporalTrends(y)
    \/ StatReturn

SpecShifts == InitShifts /\ [][NextShifts]_vars

\* SpecChat: two chat requests served by one process.
InitChat ==
    /\ ChatOff
    /\ FlowOff
    /\ WfOff
    /\ HttpOff
    /\ CacheOff
    /\ RenderOff
    /\ ConvOff
    /\ GeoOff
    /\ StatOff

NextChat ==
    \/ \E s \in Streams, e \in SeqsUpTo(InstructionJsons, MaxEvents) : StreamStart(s, e)
    \/ \E s \in Streams : StreamInstruction(s)
    \/ \E s \in Streams : StreamComplete(s)
    \/ \E s \in Streams : StreamClose(s)

SpecChat == InitChat /\ [][NextChat]_vars

\* SpecFlow: runs of the workflow through create_instructions and the loop.
\* SpecFlowFair: the graph runs the node it has routed to.
InitFlow ==
    /\ ChatOff
    /\ FlowOff
    /\ WfOff
    /\ HttpOff
    /\ CacheOff
    /\ RenderOff
    /\ ConvOff
    /\ GeoOff
    /\ StatOff

InstructionsPass == \E located \in BOOLEAN : instructions(located)

NextFlow ==
    \/ \E a \in SeqsUpTo(ActionNames, MaxActions), e \in BOOLEAN : CreateInstructions(a, e)
    \/ InstructionsPass
    \/ FlowEnd

SpecFlow == InitFlow /\ [][NextFlow]_vars

SpecFlowFair == SpecFlow /\ WF_vars(InstructionsPass)

\* SpecWorkflows: requests to the CreateGIF and GeoFiles workflows, one at a
\* time.
InitWorkflows ==
    /\ ChatOff
    /\ FlowOff
    /\ WfOff
    /\ HttpOff
    /\ CacheOff
    /\ RenderOff
    /\ ConvOff
    /\ GeoOff
    /\ StatOff

NextWorkflows ==
    \/ \E g \in WfGraphs : Invoke(g)
    \/ \E o \in ParseOutcomes : parse_query(o)
    \/ \E found \in BOOLEAN, kept \in BOOLEAN : fetch_data(found, kept)
    \/ \E made \in BOOLEAN : create_visualization(made)
    \/ \E made \in BOOLEAN : generate_files(made)
    \/ generate_response

SpecWorkflows == InitWorkflows /\ [][NextWorkflows]_vars

\* SpecHttp: requests to GET /timeline-gif, one at a time, while GIFs come and
\* go in the working directory.
InitHttp ==
    /\ ChatOff
    /\ FlowOff
    /\ WfOff
    /\ HttpOff
    /\ CacheOff
    /\ RenderOff
    /\ ConvOff
    /\ GeoOff
    /\ StatOff

RequestCountries == {"Mali", "Chad", "Atlantis"}

RequestDatasets == {"PopDensity", "Precipitation", "Lakes"}

RequestYears == {2005, 2010, 2015, 2020, 2025}

NextHttp ==
    \/ \E c \in RequestCountries, d \in RequestDatasets, s \in RequestYears,
          e \in RequestYears, fails \in BOOLEAN : get_timeline_gif(c, d, s, e, fails)
    \/ HttpDone
    \/ \E n \in GifNames : GifWritten(n)
    \/ \E n \in GifNames : GifRemoved(n)

SpecHttp == InitHttp /\ [][NextHttp]_vars

----------------------------------------------------------------------------
(* Claims about processing.py *)

\* The call of caller p is over (it returned or raised).
Over(p) == proc[p].pc \in {"returned", "raised"}

\* Every dataset of p's request is a key of the cache with a layer for the year.
AllPresent(p) ==
    \A i \in 1..Len(proc[p].datasets) :
        /\ proc[p].datasets[i] \in DOMAIN TIF_CACHE
        /\ proc[p].year \in DOMAIN TIF_CACHE[proc[p].datasets[i]]

\* The cached layer the i-th dataset of p's request names.
Requested(p, i) == TIF_CACHE[proc[p].datasets[i]][proc[p].year]

\* C1: for region 'assaba' and a non-empty dataset list (duplicates allowed) whose
\* layers are all cached, the call returns a raster with as many bands as the list
\* is long, every band having the maximum height and the maximum width found
\* among the requested layers.
C1_CompositeShape ==
    \A p \in Procs :
        (Over(p) /\ proc[p].region = "assaba" /\ proc[p].datasets # << >> /\ AllPresent(p))
        => LET n == Len(proc[p].datasets)
               r == proc[p].result
           IN  /\ proc[p].pc = "returned"
               /\ r.count = n
               /\ Len(r.bands) = n
               /\ \A i \in 1..n :
                    /\ r.bands[i].h = SetMax({Requested(p, k).h : k \in 1..n})
                    /\ r.bands[i].w = SetMax({Requested(p, k).w : k \in 1..n})
               /\ r.height = SetMax({Requested(p, k).h : k \in 1..n})
               /\ r.width = SetMax({Requested(p, k).w : k \in 1..n})

\* A two-band composite of a tall and a wide layer: both had to be resampled.
C1_Witness ==
    \E p \in Procs :
        /\ proc[p].pc = "returned"
        /\ proc[p].region = "assaba"
        /\ Len(proc[p].datasets) = MaxLen
        /\ AllPresent(p)
        /\ \E i, j \in 1..Len(proc[p].datasets) :
              /\ Requested(p, i).h < Requested(p, j).h
              /\ Requested(p, i).w > Requested(p, j).w
        /\ \A i \in 1..Len(proc[p].result.bands) : proc[p].result.bands[i].resampled

\* C2: the call is all-or-nothing: with an unsupported region, or with any one
\* requested layer absent, it raises and hands out no buffer; a buffer it returns
\* never has fewer bands than datasets were requested.
C2_AllOrNothing ==
    \A p \in Procs :
        /\ (Over(p) /\ (Lower(proc[p].region) # "assaba" \/ ~AllPresent(p)))
           => (proc[p].pc = "raised" /\ proc[p].result = NoResult /\ proc[p].error # "")
        /\ proc[p].pc = "returned"
           => (proc[p].result.count = Len(proc[p].datasets)
               /\ Len(proc[p].result.bands) = Len(proc[p].datasets))

\* A supported region, one requested layer cached and another one missing.
C2_Witness ==
    \E p \in Procs :
        /\ proc[p].pc = "raised"
        /\ proc[p].result = NoResult
        /\ Lower(proc[p].region) = "assaba"
        /\ \E i, j \in 1..Len(proc[p].datasets) :
              /\ proc[p].datasets[i] \in Datasets
              /\ proc[p].year \in DOMAIN TIF_CACHE[proc[p].datasets[i]]
              /\ proc[p].datasets[j] \in Datasets
              /\ proc[p].year \notin DOMAIN TIF_CACHE[proc[p].datasets[j]]

\* C3: once load_all_tifs has returned, no step of any compose call (interleaved
\* with another caller's or not, failing or not, resampling or not) changes
\* TIF_CACHE, and no call runs before the load is complete.
C3_CacheReadOnly ==
    /\ [](\A p \in Procs : proc[p].pc # "idle" => loadPc = LoadDone)
    /\ [][loadPc = LoadDone => TIF_CACHE' = TIF_CACHE]_vars

\* One caller holds gathered layers while the other has returned a resampled
\* composite, and the cache still is what the load left.
C3_Witness ==
    \E p, q \in Procs :
        /\ p # q
        /\ proc[p].pc = "collected"
        /\ proc[q].pc = "returned"
        /\ \E i \in 1..Len(proc[q].result.bands) : proc[q].result.bands[i].resampled
        /\ TIF_CACHE = Loaded(disk)

\* C4: a file that fails to decode leaves its own (dataset, year) entry absent,
\* every decodable file of the same and of the other folders is loaded all the
\* same, and load_all_tifs never ends by an exception.
C4_LoadBestEffort ==
    /\ loadPc # LoadRaised
    /\ loadPc = LoadDone =>
         \A f \in DOMAIN disk :
            LET m == MatchYear(f[2])
            IN  m.matched =>
                  IF disk[f].ok
                  THEN /\ m.year \in DOMAIN TIF_CACHE[f[1]]
                       /\ TIF_CACHE[f[1]][m.year] = Decode(f)
                  ELSE /\ m.year \notin DOMAIN TIF_CACHE[f[1]]
                       /\ f \in loadLog

\* The load is over; a file failed, and a file of a later folder was loaded.
C4_Witness ==
    /\ loadPc = LoadDone
    /\ \E f \in loadLog : \E g \in DOMAIN disk :
          /\ \E i, j \in 1..Len(LoadOrder) : i < j /\ LoadOrder[i] = f[1] /\ LoadOrder[j] = g[1]
          /\ MatchYear(g[2]).matched
          /\ MatchYear(g[2]).year \in DOMAIN TIF_CACHE[g[1]]
          /\ TIF_CACHE[g[1]][MatchYear(g[2]).year].src = g

\* C5: band i of a returned composite is the layer of the i-th requested dataset:
\* the cached array itself, or that array resampled to the composite's shape.
C5_BandOrder ==
    \A p \in Procs :
        proc[p].pc = "returned" =>
            \A i \in 1..Len(proc[p].datasets) :
                LET b == proc[p].result.bands[i]
                IN  /\ i <= Len(proc[p].result.bands)
                    /\ b.src = Requested(p, i).src
                    /\ b.src[1] = proc[p].datasets[i]
                    /\ ~b.resampled => b = Requested(p, i)

\* A composite of two different datasets.
C5_Witness ==
    \E p \in Procs :
        /\ proc[p].pc = "returned"
        /\ Len(proc[p].datasets) >= 2
        /\ proc[p].datasets[1] # proc[p].datasets[2]
        /\ proc[p].result.bands[1].src[1] = proc[p].datasets[1]

----------------------------------------------------------------------------
(* Claims about the timeline renderers *)

Called == render.fn # "none"

\* The years the last call asked for whose raster could be read.
ReadYears ==
    IF render.fn = "create_gif_timeline"
    THEN {y \in DOMAIN tiffs :
            /\ y >= render.start_year /\ y <= render.end_year
            /\ y >= 2010 /\ y <= 2020
            /\ render.country = "Mali"
            /\ tiffs[y].readable}
    ELSE {render.series[i].year : i \in {k \in 1..Len(render.series) : render.series[k].data # {}}}

\* Every cell of a read raster that is neither nodata nor <= 0.
AllValidCells ==
    UNION {{c \in tiffs[y].cells : c > 0 /\ c \notin tiffs[y].nodata} : y \in ReadYears}

\* C6: the animation has exactly one frame per year whose raster was read, none
\* for any other year, in ascending year order whatever the input order; missing
\* or unreadable years are skipped and the other years are still rendered.
C6_FramesPerReadYear ==
    Called =>
        /\ Len(render.frames) = Cardinality(ReadYears)
        /\ {render.frames[i].year : i \in 1..Len(render.frames)} = ReadYears
        /\ \A i, j \in 1..Len(render.frames) :
              i < j => render.frames[i].year < render.frames[j].year
        /\ ReadYears # {} => (render.outcome = "ok" /\ render.written)

\* A series given out of order, one of its entries without data: two frames.
C6_Witness ==
    /\ render.fn = "create_time_series_gif"
    /\ render.outcome = "ok"
    /\ Len(render.frames) >= 2
    /\ \E i, j \in 1..Len(render.series) :
          /\ i < j
          /\ render.series[i].year > render.series[j].year
          /\ render.series[i].data # {}
          /\ render.series[j].data # {}
    /\ \E k \in 1..Len(render.series) : render.series[k].data = {}

\* C7: all frames of one animation are colour-mapped with one and the same
\* value range, computed once over all frames; no frame has a range of its own.
C7_SharedRange ==
    Called =>
        \A i, j \in 1..Len(render.frames) :
            /\ render.frames[i].vmin = render.frames[j].vmin
            /\ render.frames[i].vmax = render.frames[j].vmax
            /\ render.frames[i].scale = render.frames[j].scale

NoValidCell ==
    /\ render.fn = "create_gif_timeline"
    /\ ReadYears # {}
    /\ AllValidCells = {}

\* C9 as stated: with a readable raster and no valid cell, rendering goes on and
\* the shared range is [0,100] for every dataset kind.
C9_Original ==
    NoValidCell =>
        /\ render.outcome = "ok"
        /\ \A i \in 1..Len(render.frames) :
              render.frames[i].vmin = 0 /\ render.frames[i].vmax = 100

\* C9 as amended: with a readable raster and no valid cell, rendering goes on;
\* the shared range is [0,100] for precipitation and, the logarithmic scale
\* having a floor of 1, [1,100] for population density.
C9_DefaultRange ==
    NoValidCell =>
        /\ render.outcome = "ok"
        /\ render.frames # << >>
        /\ \A i \in 1..Len(render.frames) :
              /\ render.frames[i].vmax = 100
              /\ render.frames[i].vmin = IF render.dataset = "PopDensity" THEN 1 ELSE 0

\* A population-density timeline whose only cells are zero or nodata.
C9_Witness ==
    /\ NoValidCell
    /\ render.dataset = "PopDensity"
    /\ render.outcome = "ok"
    /\ \E y \in ReadYears : tiffs[y].nodata # {}

\* The global minimum and maximum of the valid cells of the rasters read; 0 and
\* 100 stand in when no cell is valid.
GlobalMin == IF AllValidCells = {} THEN 0 ELSE SetMin(AllValidCells)

GlobalMax == IF AllValidCells = {} THEN 100 ELSE SetMax(AllValidCells)

\* C25: every frame of a timeline is normalized with the upper bound
\* max(100, global maximum); for population density the scale is logarithmic
\* with the lower bound max(1, global minimum), for precipitation it is linear
\* with the lower bound equal to the global minimum; the lower bound never
\* exceeds the upper bound.
C25_NormBounds ==
    (render.fn = "create_gif_timeline" /\ render.outcome = "ok") =>
        \A i \in 1..Len(render.frames) :
            LET f == render.frames[i]
            IN  /\ f.vmax = (IF GlobalMax > 100 THEN GlobalMax ELSE 100)
                /\ render.dataset = "PopDensity" =>
                      /\ f.scale = "log"
                      /\ f.vmin = (IF GlobalMin > 1 THEN GlobalMin ELSE 1)
                /\ render.dataset = "Precipitation" =>
                      /\ f.scale = "linear"
                      /\ f.vmin = GlobalMin
                /\ f.vmin <= f.vmax

\* A precipitation timeline of two frames whose largest valid cell is above 100
\* and whose smallest is below.
C25_Witness ==
    /\ render.fn = "create_gif_timeline"
    /\ render.outcome = "ok"
    /\ render.dataset = "Precipitation"
    /\ Len(render.frames) = 2
    /\ GlobalMax > 100
    /\ GlobalMin < 100
    /\ GlobalMin > 1

----------------------------------------------------------------------------
(* Claims about convert_tif_to_mbtiles_in_memory *)

\* C10: whenever a call has returned, by whatever path, none of the temporary
\* files that call created exists any more.
C10_NoTempFileLeft ==
    \A w \in Workers :
        conv[w].pc = "returned" => conv[w].created \cap DOMAIN tmpfs = {}

\* C11: convert_tif_to_mbtiles_in_memory never raises.  A non-zero exit code of
\* the tool gives (empty bytes, a message holding the tool's stderr); any
\* exception gives (empty bytes, a non-empty message); exit code 0 with no
\* exception gives (the archive the tool produced, the empty message).
C11_NeverRaises ==
    \A w \in Workers :
        /\ conv[w].pc # "raised"
        /\ conv[w].pc = "returned" =>
              LET c == conv[w]
              IN  /\ c.exception =>
                        c.result.data = "" /\ c.result.error # << >>
                  /\ (c.tool.exit = "nonzero" /\ ~c.exception) =>
                        /\ c.result.data = ""
                        /\ c.result.error # << >>
                        /\ \E i \in 1..Len(c.result.error) : c.result.error[i] = c.tool.stderr
                  /\ (c.tool.exit = "zero" /\ ~c.exception) =>
                        c.result = [data |-> c.tool.archive, error |-> << >>]

\* A call has returned after the tool exited non-zero with text on stderr, and
\* another after an exception.
C11_Witness ==
    /\ conv[1].pc = "returned" /\ conv[1].tool.exit = "nonzero"
    /\ conv[1].tool.stderr # "" /\ conv[1].result.error = ToolError(conv[1].tool.stderr)
    /\ conv[2].pc = "returned" /\ conv[2].exception

----------------------------------------------------------------------------
(* Claims about the batch conversions and convert_tif_to_geojson *)

\* The years of start..end that have data, ascending.
DataYears(a, b) ==
    LET WithData(y) == HasData(y)
    IN  SelectSeq(YearRange(a, b), WithData)

\* A result string is a path or an error message, not both and not neither.
OneOfBoth(item) == (item.path # {}) # (item.error # << >>)

Wanted(g, fmt) == \E i \in 1..Len(g.formats) : g.formats[i] = fmt

\* C12: in a time-series batch conversion a tool failure for one year affects
\* that year's item only: the batch returns one item per year that had data, in
\* ascending year order, each item carrying either converted data or an error
\* message, never both and never neither.
C12_PerYearItems ==
    /\ (batch.fn # "none" /\ batch.pending = << >>) =>
          LET seen == Visited(batch.series)
          IN  /\ Len(batch.result) = Len(seen)
              /\ \A i \in 1..Len(batch.result) :
                    /\ batch.result[i].year = seen[i].year
                    /\ (batch.result[i].data # {}) # (batch.result[i].error # {})
                    /\ batch.result[i] = ItemOf(seen[i].year, batch.outcomes[i])
              /\ \A i, j \in 1..Len(batch.result) :
                    i < j => batch.result[i].year < batch.result[j].year
    /\ \A r \in GeoRequests :
          geo[r].pc = "done" =>
              LET g == geo[r]
                  years == DataYears(g.start_year, g.end_year)
                  List(fmt) == IF fmt = "tif" THEN g.result.tif
                               ELSE IF fmt = "mbtiles" THEN g.result.mbtiles
                               ELSE g.result.geojson
              IN  /\ g.result.years = years
                  /\ \A fmt \in GeoFormats :
                        Wanted(g, fmt) =>
                            /\ Len(List(fmt)) = Len(years)
                            /\ \A i \in 1..Len(List(fmt)) :
                                  /\ OneOfBoth(List(fmt)[i])
                                  /\ \A q \in List(fmt)[i].path :
                                        i <= Len(years) /\ q[2] = years[i]

\* The tool of the call that exited non-zero, if any.
Failed(j) == {i \in 1..Len(j.tools) : j.tools[i].exit = "nonzero"}

\* C13: convert_tif_to_geojson is fail-fast: the simplify tool is invoked only
\* after the polygonize tool exited with code 0 and its output file exists; when
\* a tool fails the conversion ends at once, no further tool is invoked, no
\* exception escapes, and the error returned contains the stderr of that tool.
C13_FailFast ==
    \A r \in GeoRequests :
        LET j == geo[r].gj
        IN  /\ j.outcome # "raised"
            /\ \A i \in 1..Len(j.tools) :
                  j.tools[i].name = "simplify" =>
                      i = 2 /\ j.tools[1].name = "polygonize"
                            /\ j.tools[1].exit = "zero" /\ j.tempSeen
            /\ \A i \in Failed(j) :
                  /\ i = Len(j.tools)
                  /\ j.outcome # "running"
                  /\ j.outcome = "returned" =>
                        \A v \in j.value :
                            /\ v.path = {}
                            /\ \E k \in 1..Len(v.error) : v.error[k] = j.tools[i].stderr

\* The simplify tool of the call exited with code 0.
Simplified(j) ==
    Len(j.tools) = 2 /\ j.tools[2].name = "simplify" /\ j.tools[2].exit = "zero"

\* C14: whenever the simplify step of convert_tif_to_geojson has succeeded, the
\* intermediate file is gone once the call has returned; a conversion that
\* returns the path of the final file leaves that file and no intermediate.
C14_TempDeleted ==
    \A r \in GeoRequests :
        LET j == geo[r].gj
        IN  (j.outcome = "returned" /\ Simplified(j)) =>
                /\ j.temp \cap DOMAIN geofs = {}
                /\ \A v \in j.value : v.path \subseteq DOMAIN geofs

\* A conversion has returned the path of the final file although the output
\* directory held an intermediate file of the same name before it began.
C14_Witness ==
    /\ geo[1].gj.outcome = "returned"
    /\ Simplified(geo[1].gj)
    /\ geo[1].gj.temp = {GeoPath("temp_geojson", 2010, 0)}
    /\ \E v \in geo[1].gj.value : v.path # {}

\* C15: two requests running at the same time, also with identical parameters
\* and started within the same second, never write to the same file path and
\* never read a file the other wrote.
C15_UniqueNames == \A r \in GeoRequests : ~geo[r].shared

\* C26: when process_time_series_files has returned, the list of every
\* requested format has one entry per year of result["years"], in the same
\* order, and every entry is the path of a file produced for that year; a year
\* whose conversion failed has no entry.
C26_AlignedPaths ==
    \A r \in GeoRequests :
        geo[r].pc = "done" =>
            \A fmt \in GeoFormats :
                Wanted(geo[r], fmt) =>
                    /\ Len(geo[r].result[fmt]) = Len(geo[r].result.years)
                    /\ \A i \in 1..Len(geo[r].result[fmt]) :
                          /\ geo[r].result[fmt][i].error = << >>
                          /\ \E q \in geo[r].result[fmt][i].path :
                                q[1] = fmt /\ q[2] = geo[r].result.years[i]

----------------------------------------------------------------------------
(* Claims about DataAnalysisTool *)

\* C16: calculate_statistics of an empty value list returns count, min, max,
\* mean, median and std_dev equal to 0 and center_of_mass (0,0), whether or not
\* a feature set is supplied.
C16_EmptyStatistics ==
    (stat.fn = "calculate_statistics" /\ stat.values = << >>) =>
        LET s == stat.statistics
        IN  /\ s.count = 0
            /\ Same(s.min, Zero) /\ Same(s.max, Zero)
            /\ Same(s.mean, Zero) /\ Same(s.median, Zero)
            /\ Same(s.std_dev.squared, Zero)
            /\ Same(s.center_of_mass[1], Zero) /\ Same(s.center_of_mass[2], Zero)

\* The empty list came with a document whose feature has a place and a weight.
C16_Witness ==
    /\ stat.fn = "calculate_statistics"
    /\ stat.values = << >>
    /\ stat.geojson = Geojson(<<Spot>>)

\* The features of the document whose DN is a number greater than 0.
Numeric(g) ==
    IF g.loaded /\ g.keyed
    THEN {i \in 1..Len(g.features) :
              g.features[i].dn.kind = "number" /\ g.features[i].dn.n > 0}
    ELSE {}

\* `list` takes its entries, in order, from the positions `from` of `all`.
InOrderFrom(list, from, all) ==
    \E f \in [1..Len(list) -> from] :
        /\ \A a, b \in 1..Len(list) : a < b => f[a] < f[b]
        /\ \A a \in 1..Len(list) : list[a] = all[f[a]]

C18_ScaleInvariant ==
    stat.fn = "calculate_center_of_mass" =>
        /\ Same(stat.center[1], stat.scaled[1])
        /\ Same(stat.center[2], stat.scaled[2])
        /\ (stat.points = << >>
              \/ Sum([i \in 1..Len(stat.points) |-> stat.points[i][3]]) = 0) =>
                  stat.center = <<Zero, Zero>>

\* Two points of different weights, away from the origin, scaled by 3.
C18_Witness ==
    /\ stat.fn = "calculate_center_of_mass"
    /\ stat.k = 3
    /\ Len(stat.points) = 2
    /\ stat.points[1][3] = 1 /\ stat.points[2][3] = 2
    /\ ~Same(stat.center[1], Zero)

\* The years of the call that have data, ascending, and their means.
TrendYearsOf(years) ==
    LET Found(y) == geojsons[y].loaded
    IN  SelectSeq(Ascending(years), Found)

MeanOf(y) ==
    LET v == extract_data_values(geojsons[y])
    IN  IF v = << >> THEN Zero ELSE <<Sum(v), Len(v)>>

\* C19: analyze_temporal_trends reports, for every pair of consecutive years
\* with data whose means are both positive, the percent change under the key
\* of the pair, and for no other pair; for every input with at least two years
\* with data, whatever the means of the first and the last year.
C19_PercentChanges ==
    (stat.fn = "analyze_temporal_trends" /\ Len(TrendYearsOf(stat.years)) >= 2) =>
        LET ys == TrendYearsOf(stat.years)
            wanted == {<<ys[i], ys[i + 1]>> : i \in {k \in 1..(Len(ys) - 1) :
                          Positive(MeanOf(ys[k])) /\ Positive(MeanOf(ys[k + 1]))}}
        IN  /\ stat.trends.reported \/ wanted = {}
            /\ DOMAIN stat.trends.percent_changes = wanted
            /\ \A pr \in wanted :
                  stat.trends.percent_changes[pr]
                      = Round2(PercentChange(MeanOf(pr[1]), MeanOf(pr[2])))

\* C20: whenever at least two years have positive means, total_change is
\* reported and its percent_change is that between the earliest and the latest
\* year with a positive mean, even if the earliest or latest year with data has
\* mean 0.
C20_TotalChange ==
    stat.fn = "analyze_temporal_trends" =>
        LET ys == TrendYearsOf(stat.years)
            pos == {y \in Range(ys) : Positive(MeanOf(y))}
        IN  Cardinality(pos) >= 2 =>
                /\ stat.trends.total_change # {}
                /\ \A tc \in stat.trends.total_change :
                      /\ tc.time_period = <<SetMin(pos), SetMax(pos)>>
                      /\ tc.percent_change
                            = Round2(PercentChange(MeanOf(SetMin(pos)), MeanOf(SetMax(pos))))

----------------------------------------------------------------------------
(* Claims about compare_regions *)

\* The regions of the call for which a document was found.
WithData == {c \in Range(stat.countries) : geojsons[c].loaded}

StatsOf(c) == calculate_statistics(extract_data_values(geojsons[c]), geojsons[c])

Directions ==
    {"northernmost_center", "southernmost_center", "easternmost_center", "westernmost_center"}

NonZeroCenter(c) == ~Same(StatsOf(c).center_of_mass[1], Zero) \/ ~Same(StatsOf(c).center_of_mass[2], Zero)

\* C21: compare_regions names as highest_mean (highest_max, most_variable,
\* highest_median) a region with data whose mean (max, std_dev, median) is at
\* least that of every region with data, and as lowest_mean (lowest_median) a
\* region with data whose value is at most that of every region with data; no
\* ranking names a region without data, and without any data there is no ranking.
C21_Rankings ==
    stat.fn = "compare_regions" =>
        LET r == stat.comparison.rankings
        IN  /\ stat.comparison.ranked = (WithData # {})
            /\ WithData = {} => DOMAIN r = {}
            /\ \A name \in DOMAIN r : r[name] \in WithData
            /\ WithData # {} =>
                \A c \in WithData :
                    /\ ~Less(StatsOf(r.highest_mean).mean, StatsOf(c).mean)
                    /\ ~Less(StatsOf(c).mean, StatsOf(r.lowest_mean).mean)
                    /\ ~Less(StatsOf(r.highest_max).max, StatsOf(c).max)
                    /\ ~Less(StatsOf(r.most_variable).std_dev.squared, StatsOf(c).std_dev.squared)
                    /\ ~Less(StatsOf(r.highest_median).median, StatsOf(c).median)
                    /\ ~Less(StatsOf(c).median, StatsOf(r.lowest_median).median)

\* A call over a region without data and regions with different means, the
\* highest mean not being the first region's.
C21_Witness ==
    /\ stat.fn = "compare_regions"
    /\ \E c \in Range(stat.countries) : c \notin WithData
    /\ Cardinality(WithData) > 1
    /\ stat.comparison.rankings.highest_mean # stat.comparison.rankings.lowest_mean
    /\ stat.comparison.rankings.highest_mean # Inserted(stat.countries)[1]
    /\ stat.comparison.rankings.most_variable # stat.comparison.rankings.highest_mean

\* C22: the four directional rankings are present exactly when at least two
\* regions have a non-zero center of mass.
C22_Directional ==
    stat.fn = "compare_regions" =>
        LET r == stat.comparison.rankings
        IN  IF Cardinality({c \in WithData : NonZeroCenter(c)}) >= 2
            THEN Directions \subseteq DOMAIN r
            ELSE Directions \cap DOMAIN r = {}

----------------------------------------------------------------------------
(* Claims about analyze_correlations *)

\* The number of pairs of a year: the length of the shorter of the two lists of
\* positive observations; -1 when a document is missing.
Pairs(y) ==
    IF <<"PopDensity", y>> \in DOMAIN geojsons /\ <<"Precipitation", y>> \in DOMAIN geojsons
       /\ geojsons[<<"PopDensity", y>>].loaded /\ geojsons[<<"Precipitation", y>>].loaded
    THEN SetMin({Len(extract_data_values(geojsons[<<d, y>>])) : d \in CorrDatasets})
    ELSE -1

\* C23: analyze_correlations reports a correlation for a year only if both
\* documents exist and the two lists, cut to the shorter one, hold at least 10
\* pairs; the lists correlated have that common length; and when no year is
\* reported the result has no average, relationship or strength.
C23_SampleFloor ==
    stat.fn = "analyze_correlations" =>
        LET yearly == stat.correlation.yearly_correlations
        IN  /\ \A y \in DOMAIN yearly :
                /\ y \in Range(stat.years)
                /\ Pairs(y) >= 10
                /\ Len(yearly[y].pop_values) = Pairs(y)
                /\ Len(yearly[y].precip_values) = Pairs(y)
            /\ DOMAIN yearly = {} => ~stat.correlation.averaged

\* A call over a year with 10 pairs, reported, and a year with 9, left out.
C23_Witness ==
    /\ stat.fn = "analyze_correlations"
    /\ \E y, z \in Range(stat.years) :
        /\ Pairs(y) = 10
        /\ y \in DOMAIN stat.correlation.yearly_correlations
        /\ Pairs(z) = 9
        /\ z \notin DOMAIN stat.correlation.yearly_correlations

----------------------------------------------------------------------------
(* Claims about the center-of-mass shifts *)

Labels ==
    {<<"North">>, <<"South">>, <<"East">>, <<"West">>, <<"North", "East">>, <<"North", "West">>,
     <<"South", "East">>, <<"South", "West">>, <<"No significant shift">>}

\* The center of mass of year y in the result.
CenterOf(y) == stat.trends.yearly_statistics[y].center_of_mass

\* 1000 * (the coordinate `axis` of year y2 - that of year y1) compared with 1
\* and -1: the sign of the shift, 0 within the threshold.
Shift(y1, y2, axis) ==
    LET a == CenterOf(y2)[axis]
        b == CenterOf(y1)[axis]
        left == 1000 * (a[1] * b[2] - b[1] * a[2])
        right == a[2] * b[2]
    IN  IF left > right THEN 1 ELSE IF left < -right THEN -1 ELSE 0

\* C24: the label of a shift is decided per axis with the threshold 0.001:
\* North or South first, when the latitude changes by more than 0.001, then
\* East or West, when the longitude does; it is one of the 8 compass labels or
\* "No significant shift", the latter exactly when neither axis changed by
\* more than 0.001.
C24_ShiftLabels ==
    stat.fn = "analyze_temporal_trends" =>
        \A pr \in DOMAIN stat.trends.center_of_mass_shifts :
            LET label == stat.trends.center_of_mass_shifts[pr].direction
                lat == Shift(pr[1], pr[2], 2)
                lon == Shift(pr[1], pr[2], 1)
            IN  /\ label \in Labels
                /\ (label = <<"No significant shift">>) = (lat = 0 /\ lon = 0)
                /\ ("North" \in Range(label)) = (lat = 1)
                /\ ("South" \in Range(label)) = (lat = -1)
                /\ ("East" \in Range(label)) = (lon = 1)
                /\ ("West" \in Range(label)) = (lon = -1)

\* A result with a shift of exactly 0.001 on both axes, labelled as no shift,
\* and a shift to the north-west.
C24_Witness ==
    /\ stat.fn = "analyze_temporal_trends"
    /\ \E pr, qr \in DOMAIN stat.trends.center_of_mass_shifts :
        /\ Same(Minus(CenterOf(pr[2])[1], CenterOf(pr[1])[1]), ShiftThreshold)
        /\ Same(Minus(CenterOf(pr[2])[2], CenterOf(pr[1])[2]), ShiftThreshold)
        /\ stat.trends.center_of_mass_shifts[pr].direction = <<"No significant shift">>
        /\ stat.trends.center_of_mass_shifts[qr].direction = <<"North", "West">>

----------------------------------------------------------------------------
(* Claims about stream_geo_chat *)

\* How often x occurs in the sequence s.
Count(x, s) == Cardinality({i \in 1..Len(s) : s[i] = x})

\* C27: in every stream, every distinct instruction of the events handled so
\* far has been yielded exactly once, whatever the other stream does.
C27_OncePerStream ==
    \A s \in Streams :
        \A i \in 1..stream[s].at :
            Count(stream[s].events[i], stream[s].yielded) = 1

----------------------------------------------------------------------------
(* Claims about the instruction loop *)

----------------------------------------------------------------------------
(* Claims about the CreateGIF and GeoFiles workflows *)

\* C29: once a step of a workflow has set an error, no data-producing node
\* (fetch_data, create_visualization, generate_files) runs in that request and
\* no later node changes or clears the error.
C29_FirstErrorKept ==
    [][(wf.node \in WfNodes /\ wf.error # "")
          => (wf.node \notin DataProducing /\ wf'.error = wf.error)]_vars

----------------------------------------------------------------------------
(* Claims about GET /timeline-gif *)

\* Neither the GIF of the request's parameters nor timeline.gif exists.
NoGif ==
    /\ param_filename(http.dataset, http.country, http.start, http.end) \notin gifs
    /\ default_path \notin gifs

\* C30: a request answered while neither GIF exists gets status 404 with the
\* detail "Timeline GIF not found"; status 500 is returned only when a file
\* that exists could not be served.
C30_NotFound ==
    http.pc = "responded" =>
        /\ NoGif => (http.status_code = 404 /\ http.detail = "Timeline GIF not found")
        /\ http.status_code = 500 => ~NoGif

============================================================================
